---------------------------- MODULE Spec2Model ----------------------------
(***************************************************************************)
(* Model of the document-chunking engine of scripts/chunking:              *)
(*   token_utils.py       token counter and overlap arithmetic             *)
(*   chunker.py           classifier, configuration table, context prefix, *)
(*                        chunk_text (splitter + small-to-big hierarchy),  *)
(*                        chunk_documents (batch orchestrator)             *)
(*   metadata_enhancer.py hypothetical-question enhancement                *)
(*                                                                         *)
(* A Python string is a sequence of one-character strings.  A dict is a    *)
(* function whose DOMAIN is the set of keys that are present.  A list is a *)
(* sequence.  The value None (in a place where a string is expected) is    *)
(* the one-element sequence NoneValue, which is no string.                 *)
(***************************************************************************)
EXTENDS Integers, Sequences, FiniteSets, TLC

(***************************************************************************)
(* Strings                                                                 *)
(***************************************************************************)
NoneValue == <<"<None>">>

IsStr(v) == v # NoneValue

IsSpace(c) == c \in {" ", "\n"}

Min(S) == CHOOSE x \in S : \A y \in S : x <= y

Max(S) == CHOOSE x \in S : \A y \in S : x >= y

\* str.strip(): the string without its leading and trailing whitespace.
Strip(s) ==
    LET solid == {i \in 1..Len(s) : ~IsSpace(s[i])}
    IN  IF solid = {} THEN <<>> ELSE SubSeq(s, Min(solid), Max(solid))

\* needle in hay (Python's substring test).
Contains(hay, needle) ==
    \E i \in 1..(Len(hay) - Len(needle) + 1) :
        \A k \in 1..Len(needle) : hay[i + k - 1] = needle[k]

\* "".join(parts[lo..hi]), by halves (the nesting depth stays logarithmic).
RECURSIVE JoinRange(_, _, _)
JoinRange(parts, lo, hi) ==
    IF lo > hi THEN <<>>
    ELSE IF lo = hi THEN parts[lo]
    ELSE LET mid == (lo + hi) \div 2
         IN  JoinRange(parts, lo, mid) \o JoinRange(parts, mid + 1, hi)

\* The members of S within lo..hi, in increasing order.
RECURSIVE SortedRange(_, _, _)
SortedRange(S, lo, hi) ==
    IF lo > hi THEN <<>>
    ELSE IF lo = hi THEN (IF lo \in S THEN <<lo>> ELSE <<>>)
    ELSE LET mid == (lo + hi) \div 2
         IN  SortedRange(S, lo, mid) \o SortedRange(S, mid + 1, hi)

(***************************************************************************)
(* token_utils.py: the token counter.                                      *)
(*                                                                         *)
(* tiktoken's cl100k_base vocabulary is abstracted to its pre-tokenizer on *)
(* a three-class alphabet (word characters, whitespace, other): a token is *)
(* a run of word characters, a run of whitespace, or one other character;  *)
(* a single space directly before a non-space character belongs to the     *)
(* token of that character.  Token counts are therefore not additive under *)
(* concatenation, as with the real vocabulary.                             *)
(***************************************************************************)
IsWordChar(c) ==
    c \in {"a", "b", "c", "d", "e", "f", "g", "h", "i", "j", "k", "l", "m",
           "n", "o", "p", "q", "r", "s", "t", "u", "v", "w", "x", "y", "z",
           "A", "B", "C", "D", "E", "F", "G", "H", "I", "J", "K", "L", "M",
           "N", "O", "P", "Q", "R", "S", "T", "U", "V", "W", "X", "Y", "Z",
           "0", "1", "2", "3", "4", "5", "6", "7", "8", "9"}

TokenStart(t, i) ==
    \/ i = 1
    \/ /\ i > 1
       /\ IF IsSpace(t[i])
          THEN \/ ~IsSpace(t[i - 1])
               \/ t[i] = " " /\ i < Len(t) /\ ~IsSpace(t[i + 1])
          ELSE /\ t[i - 1] # " "
               /\ ~(IsWordChar(t[i]) /\ IsWordChar(t[i - 1]))

\* len(tokenizer.encode(text, disallowed_special=()))
Encode(text) == Cardinality({i \in 1..Len(text) : TokenStart(text, i)})

\* count_tokens(text): the tokenizer raises on a text that is no string.
count_tokens(text) == Encode(text)

\* The closure returned by create_token_counter(): the same count.
token_counter(text) == Encode(text)

\* calculate_adaptive_overlap(chunk_size_tokens, overlap_ratio = 0.2):
\* int(x * 0.2) truncates; for a positive integer x it is the floor of x / 5.
calculate_adaptive_overlap(chunk_size_tokens) ==
    LET overlap == IF chunk_size_tokens \div 5 > 20
                   THEN chunk_size_tokens \div 5 ELSE 20
        max_overlap == chunk_size_tokens \div 2
    IN  IF overlap < max_overlap THEN overlap ELSE max_overlap

(***************************************************************************)
(* RecursiveCharacterTextSplitter(chunk_size, chunk_overlap,               *)
(* length_function = token counter), as chunk_text constructs it: default  *)
(* separators, keep_separator = True (a separator starts the piece that    *)
(* follows it), strip_whitespace = True.                                   *)
(***************************************************************************)
Separators == << <<"\n", "\n">>, <<"\n">>, <<" ">>, <<>> >>

\* Start positions of the leftmost non-overlapping matches of sep in text.
MatchStarts(text, sep) ==
    IF Len(sep) = 1
    THEN {i \in 1..Len(text) : text[i] = sep[1]}
    ELSE {i \in 1..(Len(text) - 1) :
            /\ text[i] = sep[1]
            /\ text[i + 1] = sep[2]
            /\ LET before == {j \in 0..(i - 1) : j = 0 \/ text[j] # sep[1]}
               IN  (i - 1 - Max(before)) % 2 = 0}

\* _split_text_with_regex(text, separator, keep_separator = True)
SplitWithRegex(text, sep) ==
    IF sep = <<>>
    THEN [i \in 1..Len(text) |-> <<text[i]>>]
    ELSE LET cuts == SortedRange(MatchStarts(text, sep), 1, Len(text))
             n == Len(cuts)
             head == IF n = 0 THEN text ELSE SubSeq(text, 1, cuts[1] - 1)
             rest == [j \in 1..n |->
                        SubSeq(text, cuts[j],
                               IF j = n THEN Len(text) ELSE cuts[j + 1] - 1)]
         IN  IF head = <<>> THEN rest ELSE <<head>> \o rest

\* _join_docs(docs, separator = ""): the stripped join; <<>> stands for None.
JoinDocs(splits, lo, hi) == Strip(JoinRange(splits, lo, hi))

\* Loops are iterated by halves: Loop(st, k) runs at most k iterations from
\* state st and stops at the loop's own exit test, so the nesting depth of
\* the evaluation stays logarithmic in the number of iterations.

\* The inner while loop of _merge_splits: pop pieces from the front of
\* current_doc; st = [a, total], current_doc = splits[a..i-1].
PopCond(st, len, chunk_size, chunk_overlap) ==
    \/ st.total > chunk_overlap
    \/ st.total + len > chunk_size /\ st.total > 0

RECURSIVE PopLoop(_, _, _, _, _, _)
PopLoop(splits, st, len, chunk_size, chunk_overlap, k) ==
    IF k = 0 \/ ~PopCond(st, len, chunk_size, chunk_overlap) THEN st
    ELSE IF k = 1
    THEN [a |-> st.a + 1, total |-> st.total - token_counter(splits[st.a])]
    ELSE PopLoop(splits,
                 PopLoop(splits, st, len, chunk_size, chunk_overlap, k \div 2),
                 len, chunk_size, chunk_overlap, k - k \div 2)

\* One iteration of the for loop of _merge_splits, for piece st.i;
\* st = [docs, a, total, i], current_doc = splits[a..i-1].
MergeStep(splits, st, chunk_size, chunk_overlap) ==
    LET i == st.i
        len == token_counter(splits[i])
    IN  IF st.total + len > chunk_size /\ st.a < i
        THEN LET doc == JoinDocs(splits, st.a, i - 1)
                 popped == PopLoop(splits, [a |-> st.a, total |-> st.total],
                                   len, chunk_size, chunk_overlap, i - st.a)
             IN  [docs |-> IF doc = <<>> THEN st.docs ELSE Append(st.docs, doc),
                  a |-> popped.a,
                  total |-> popped.total + len,
                  i |-> i + 1]
        ELSE [st EXCEPT !.total = @ + len, !.i = @ + 1]

RECURSIVE MergeLoop(_, _, _, _, _)
MergeLoop(splits, st, chunk_size, chunk_overlap, k) ==
    IF k = 0 \/ st.i > Len(splits) THEN st
    ELSE IF k = 1 THEN MergeStep(splits, st, chunk_size, chunk_overlap)
    ELSE MergeLoop(splits,
                   MergeLoop(splits, st, chunk_size, chunk_overlap, k \div 2),
                   chunk_size, chunk_overlap, k - k \div 2)

\* _merge_splits(splits, separator = ""): the separator has length 0.
merge_splits(splits, chunk_size, chunk_overlap) ==
    LET n == Len(splits)
        st == MergeLoop(splits, [docs |-> <<>>, a |-> 1, total |-> 0, i |-> 1],
                        chunk_size, chunk_overlap, n)
        doc == JoinDocs(splits, st.a, n)
    IN  IF doc = <<>> THEN st.docs ELSE Append(st.docs, doc)

\* The separator _split_text picks: the first of the list that is "" or
\* occurs in the text; [sep, rest] with rest the separators after it.
PickSeparator(text, separators) ==
    LET hits == {i \in 1..Len(separators) :
                    separators[i] = <<>> \/ Contains(text, separators[i])}
        i == Min(hits)
    IN  [sep |-> separators[i],
         rest |-> IF separators[i] = <<>> THEN <<>>
                  ELSE SubSeq(separators, i + 1, Len(separators))]

\* _split_text(text, separators); st = [final, g, i] at piece i of the for
\* loop, with _good_splits = splits[g..i-1].
RECURSIVE split_text_rec(_, _, _, _)
SplitStep(splits, rest, st, chunk_size, chunk_overlap) ==
    LET i == st.i
    IN  IF token_counter(splits[i]) < chunk_size
        THEN [st EXCEPT !.i = @ + 1]
        ELSE LET merged == IF st.g < i
                           THEN merge_splits(SubSeq(splits, st.g, i - 1),
                                             chunk_size, chunk_overlap)
                           ELSE <<>>
                 deeper == IF rest = <<>>
                           THEN <<splits[i]>>
                           ELSE split_text_rec(splits[i], rest,
                                               chunk_size, chunk_overlap)
             IN  [final |-> st.final \o merged \o deeper, g |-> i + 1, i |-> i + 1]

RECURSIVE SplitLoop(_, _, _, _, _, _)
SplitLoop(splits, rest, st, chunk_size, chunk_overlap, k) ==
    IF k = 0 \/ st.i > Len(splits) THEN st
    ELSE IF k = 1 THEN SplitStep(splits, rest, st, chunk_size, chunk_overlap)
    ELSE SplitLoop(splits, rest,
                   SplitLoop(splits, rest, st, chunk_size, chunk_overlap, k \div 2),
                   chunk_size, chunk_overlap, k - k \div 2)

split_text_rec(text, separators, chunk_size, chunk_overlap) ==
    LET pick == PickSeparator(text, separators)
        splits == SplitWithRegex(text, pick.sep)
        n == Len(splits)
        st == SplitLoop(splits, pick.rest, [final |-> <<>>, g |-> 1, i |-> 1],
                        chunk_size, chunk_overlap, n)
    IN  IF st.g <= n
        THEN st.final \o merge_splits(SubSeq(splits, st.g, n),
                                      chunk_size, chunk_overlap)
        ELSE st.final

\* text_splitter.split_text(text)
split_text(text, chunk_size, chunk_overlap) ==
    split_text_rec(text, Separators, chunk_size, chunk_overlap)

(***************************************************************************)
(* chunker.py: classifier, configuration table, context prefix.            *)
(*                                                                         *)
(* Strings the code only compares or uses as keys (document-type tags,     *)
(* file types, dict keys) are TLA+ strings; strings it searches, strips,   *)
(* splits, joins or tokenizes are sequences of characters.                 *)
(***************************************************************************)
NoneTag == "<None>"

\* dict.get(key, default)
Get(d, key, default) == IF key \in DOMAIN d THEN d[key] ELSE default

\* key in metadata instead of metadata.get(key): a key with an empty value
\* counts, the fault C23 excludes.
Truthy_of_any_value(d, key) == key \in DOMAIN d

\* bool(metadata.get(key)) for a string-valued field.
Truthy(d, key) == key \in DOMAIN d /\ d[key] # <<>> /\ d[key] # NoneValue

\* {**base, **updates}
Update(base, updates) == updates @@ base

LowerChar(c) ==
    LET up == <<"A", "B", "C", "D", "E", "F", "G", "H", "I", "J", "K", "L",
          "M",
                "N", "O", "P", "Q", "R", "S", "T", "U", "V", "W", "X", "Y",
                      "Z">>
        lo == <<"a", "b", "c", "d", "e", "f", "g", "h", "i", "j", "k", "l",
              "m",
                "n", "o", "p", "q", "r", "s", "t", "u", "v", "w", "x", "y",
                      "z">>
    IN  IF \E k \in 1..26 : up[k] = c
        THEN lo[CHOOSE k \in 1..26 : up[k] = c]
        ELSE c

\* str.lower()
Lower(s) == [i \in 1..Len(s) |-> LowerChar(s[i])]

CHUNKING_CONFIG ==
    ("800-53_catalog" :>
        [chunk_size_tokens |-> 384, chunk_overlap_tokens |-> 77,
         one_per_control |-> TRUE, use_small2big |-> TRUE,
         small_chunk_size |-> 256]) @@
    ("800-53a_assessment" :>
        [chunk_size_tokens |-> 384, chunk_overlap_tokens |-> 77,
         one_per_control |-> TRUE, use_small2big |-> TRUE,
         small_chunk_size |-> 256]) @@
    ("800-53_xml" :>
        [chunk_size_tokens |-> 384, chunk_overlap_tokens |-> 77,
         one_per_control |-> TRUE, use_small2big |-> TRUE,
         small_chunk_size |-> 256]) @@
    ("800-37_rmf" :>
        [chunk_size_tokens |-> 400, chunk_overlap_tokens |-> 80,
         by_task |-> TRUE, use_small2big |-> TRUE,
         small_chunk_size |-> 256]) @@
    ("csf_2.0" :>
        [chunk_size_tokens |-> 400, chunk_overlap_tokens |-> 80,
         use_small2big |-> TRUE, small_chunk_size |-> 256]) @@
    ("800-171" :>
        [chunk_size_tokens |-> 384, chunk_overlap_tokens |-> 77,
         one_per_control |-> TRUE, use_small2big |-> TRUE,
         small_chunk_size |-> 256]) @@
    ("fedramp" :>
        [chunk_size_tokens |-> 384, chunk_overlap_tokens |-> 77,
         one_per_control |-> TRUE, use_small2big |-> TRUE,
         small_chunk_size |-> 256]) @@
    ("dod_srg" :>
        [chunk_size_tokens |-> 450, chunk_overlap_tokens |-> 90,
         by_impact_level |-> TRUE, use_small2big |-> TRUE,
         small_chunk_size |-> 300]) @@
    ("cmmc" :>
        [chunk_size_tokens |-> 384, chunk_overlap_tokens |-> 77,
         use_small2big |-> TRUE, small_chunk_size |-> 256]) @@
    ("security_pattern" :>
        [chunk_size_tokens |-> 450, chunk_overlap_tokens |-> 90,
         use_small2big |-> TRUE, small_chunk_size |-> 300]) @@
    ("positioning_guide" :>
        [chunk_size_tokens |-> 450, chunk_overlap_tokens |-> 90,
         use_small2big |-> TRUE, small_chunk_size |-> 300]) @@
    ("zone_guide" :>
        [chunk_size_tokens |-> 450, chunk_overlap_tokens |-> 90,
         use_small2big |-> TRUE, small_chunk_size |-> 300]) @@
    ("grouping_guide" :>
        [chunk_size_tokens |-> 450, chunk_overlap_tokens |-> 90,
         use_small2big |-> TRUE, small_chunk_size |-> 300]) @@
    ("segmentation_guide" :>
        [chunk_size_tokens |-> 450, chunk_overlap_tokens |-> 90,
         use_small2big |-> TRUE, small_chunk_size |-> 300]) @@
    ("query_patterns" :>
        [chunk_size_tokens |-> 300, chunk_overlap_tokens |-> 60,
         use_small2big |-> FALSE]) @@
    ("default" :>
        [chunk_size_tokens |-> 512, chunk_overlap_tokens |-> 102,
         use_small2big |-> TRUE, small_chunk_size |-> 256])

\* detect_document_type returning whatever type the side metadata names:
\* the fault C13 excludes.
detect_document_type_any_side_type(filename, metadata) ==
    LET filename_lower == Lower(filename)
        has(s) == Contains(filename_lower, s)
        document_type == Get(metadata, "document_type", NoneTag)
    IN  IF has(<<"8", "0", "0", "-", "5", "3">>) /\ Get(metadata,
          "file_type", NoneTag) = "xml"
            THEN "800-53_xml"
        ELSE IF has(<<"8", "0", "0", "-", "5", "3">>) /\ has(<<"c", "a", "t",
              "a", "l", "o", "g">>)
            THEN "800-53_catalog"
        ELSE IF has(<<"8", "0", "0", "-", "5", "3", "a">>) \/ has(<<"a", "s",
              "s", "e", "s", "s", "m", "e", "n", "t">>)
            THEN "800-53a_assessment"
        ELSE IF has(<<"8", "0", "0", "-", "3", "7">>) \/ has(<<"r", "m",
              "f">>)
            THEN "800-37_rmf"
        ELSE IF has(<<"c", "s", "f">>) \/ has(<<"c", "y", "b", "e", "r", "s",
              "e", "c", "u", "r", "i", "t", "y", " ", "f", "r", "a", "m",
              "e", "w", "o", "r", "k">>)
            THEN "csf_2.0"
        ELSE IF has(<<"8", "0", "0", "-", "1", "7", "1">>) THEN "800-171"
        ELSE IF has(<<"f", "e", "d", "r", "a", "m", "p">>) THEN "fedramp"
        ELSE IF has(<<"c", "m", "m", "c">>) THEN "cmmc"
        ELSE IF has(<<"s", "r", "g">>) \/ has(<<"d", "o",
              "d">>) THEN "dod_srg"
        ELSE IF document_type # NoneTag THEN document_type
        ELSE IF has(<<"s", "e", "c", "u", "r", "i", "t", "y", "_", "p", "a",
              "t", "t", "e", "r", "n">>) THEN "security_pattern"
        ELSE IF has(<<"p", "o", "s", "i", "t", "i", "o", "n", "i", "n",
              "g">>) THEN "positioning_guide"
        ELSE IF has(<<"z", "o", "n", "e">>) THEN "zone_guide"
        ELSE IF has(<<"g", "r", "o", "u", "p", "i", "n",
              "g">>) THEN "grouping_guide"
        ELSE IF has(<<"s", "e", "g", "m", "e", "n", "t", "a", "t", "i", "o",
              "n">>) THEN "segmentation_guide"
        ELSE IF has(<<"q", "u", "e", "r", "y", "_", "p", "a", "t", "t", "e",
              "r", "n">>) \/ has(<<"g", "r", "e", "e", "t", "i", "n", "g">>)
            THEN "query_patterns"
        ELSE "default"

\* detect_document_type asking the side metadata before the filename: the
\* fault C14 excludes.
detect_document_type_metadata_first(filename, metadata) ==
    LET filename_lower == Lower(filename)
        has(s) == Contains(filename_lower, s)
        document_type == Get(metadata, "document_type", NoneTag)
    IN  IF document_type = "800-53_xml" THEN "800-53_xml"
        ELSE IF document_type = "security_pattern" THEN "security_pattern"
        ELSE IF document_type = "positioning_guide" THEN "positioning_guide"
        ELSE IF document_type = "zone_guide" THEN "zone_guide"
        ELSE IF document_type = "grouping_guide" THEN "grouping_guide"
        ELSE IF document_type = "segmentation_guide" THEN "segmentation_guide"
        ELSE IF has(<<"8", "0", "0", "-", "5", "3">>) /\ Get(metadata,
          "file_type", NoneTag) = "xml"
            THEN "800-53_xml"
        ELSE IF has(<<"8", "0", "0", "-", "5", "3">>) /\ has(<<"c", "a", "t",
              "a", "l", "o", "g">>)
            THEN "800-53_catalog"
        ELSE IF has(<<"8", "0", "0", "-", "5", "3", "a">>) \/ has(<<"a", "s",
              "s", "e", "s", "s", "m", "e", "n", "t">>)
            THEN "800-53a_assessment"
        ELSE IF has(<<"8", "0", "0", "-", "3", "7">>) \/ has(<<"r", "m",
              "f">>)
            THEN "800-37_rmf"
        ELSE IF has(<<"c", "s", "f">>) \/ has(<<"c", "y", "b", "e", "r", "s",
              "e", "c", "u", "r", "i", "t", "y", " ", "f", "r", "a", "m",
              "e", "w", "o", "r", "k">>)
            THEN "csf_2.0"
        ELSE IF has(<<"8", "0", "0", "-", "1", "7", "1">>) THEN "800-171"
        ELSE IF has(<<"f", "e", "d", "r", "a", "m", "p">>) THEN "fedramp"
        ELSE IF has(<<"c", "m", "m", "c">>) THEN "cmmc"
        ELSE IF has(<<"s", "r", "g">>) \/ has(<<"d", "o",
              "d">>) THEN "dod_srg"
        ELSE IF has(<<"s", "e", "c", "u", "r", "i", "t", "y", "_", "p", "a",
              "t", "t", "e", "r", "n">>) THEN "security_pattern"
        ELSE IF has(<<"p", "o", "s", "i", "t", "i", "o", "n", "i", "n",
              "g">>) THEN "positioning_guide"
        ELSE IF has(<<"z", "o", "n", "e">>) THEN "zone_guide"
        ELSE IF has(<<"g", "r", "o", "u", "p", "i", "n",
              "g">>) THEN "grouping_guide"
        ELSE IF has(<<"s", "e", "g", "m", "e", "n", "t", "a", "t", "i", "o",
              "n">>) THEN "segmentation_guide"
        ELSE IF has(<<"q", "u", "e", "r", "y", "_", "p", "a", "t", "t", "e",
              "r", "n">>) \/ has(<<"g", "r", "e", "e", "t", "i", "n", "g">>)
            THEN "query_patterns"
        ELSE "default"

\* detect_document_type(filename, metadata); filename.lower() raises on a
\* filename that is no string.
detect_raises(filename) == ~IsStr(filename)

detect_document_type(filename, metadata) ==
    LET filename_lower == Lower(filename)
        has(s) == Contains(filename_lower, s)
        document_type == Get(metadata, "document_type", NoneTag)
    IN  IF has(<<"8", "0", "0", "-", "5", "3">>) /\ Get(metadata,
          "file_type", NoneTag) = "xml"
            THEN "800-53_xml"
        ELSE IF has(<<"8", "0", "0", "-", "5", "3">>) /\ has(<<"c", "a", "t",
              "a", "l", "o", "g">>)
            THEN "800-53_catalog"
        ELSE IF has(<<"8", "0", "0", "-", "5", "3", "a">>) \/ has(<<"a", "s",
              "s", "e", "s", "s", "m", "e", "n", "t">>)
            THEN "800-53a_assessment"
        ELSE IF has(<<"8", "0", "0", "-", "3", "7">>) \/ has(<<"r", "m",
              "f">>)
            THEN "800-37_rmf"
        ELSE IF has(<<"c", "s", "f">>) \/ has(<<"c", "y", "b", "e", "r", "s",
              "e", "c", "u", "r", "i", "t", "y", " ", "f", "r", "a", "m",
              "e", "w", "o", "r", "k">>)
            THEN "csf_2.0"
        ELSE IF has(<<"8", "0", "0", "-", "1", "7", "1">>) THEN "800-171"
        ELSE IF has(<<"f", "e", "d", "r", "a", "m", "p">>) THEN "fedramp"
        ELSE IF has(<<"c", "m", "m", "c">>) THEN "cmmc"
        ELSE IF has(<<"s", "r", "g">>) \/ has(<<"d", "o",
              "d">>) THEN "dod_srg"
        ELSE IF document_type = "800-53_xml" THEN "800-53_xml"
        ELSE IF document_type = "security_pattern" THEN "security_pattern"
        ELSE IF document_type = "positioning_guide" THEN "positioning_guide"
        ELSE IF document_type = "zone_guide" THEN "zone_guide"
        ELSE IF document_type = "grouping_guide" THEN "grouping_guide"
        ELSE IF document_type = "segmentation_guide" THEN "segmentation_guide"
        ELSE IF has(<<"s", "e", "c", "u", "r", "i", "t", "y", "_", "p", "a",
              "t", "t", "e", "r", "n">>) THEN "security_pattern"
        ELSE IF has(<<"p", "o", "s", "i", "t", "i", "o", "n", "i", "n",
              "g">>) THEN "positioning_guide"
        ELSE IF has(<<"z", "o", "n", "e">>) THEN "zone_guide"
        ELSE IF has(<<"g", "r", "o", "u", "p", "i", "n",
              "g">>) THEN "grouping_guide"
        ELSE IF has(<<"s", "e", "g", "m", "e", "n", "t", "a", "t", "i", "o",
              "n">>) THEN "segmentation_guide"
        ELSE IF has(<<"q", "u", "e", "r", "y", "_", "p", "a", "t", "t", "e",
              "r", "n">>) \/ has(<<"g", "r", "e", "e", "t", "i", "n", "g">>)
            THEN "query_patterns"
        ELSE "default"

\* CHUNKING_CONFIG.get(document_type, {}): no default entry, the fault C16
\* excludes.
get_chunking_config_without_default(document_type) ==
    Get(CHUNKING_CONFIG, document_type, <<>>)

\* get_chunking_config(document_type)
get_chunking_config(document_type) ==
    Get(CHUNKING_CONFIG, document_type, CHUNKING_CONFIG["default"])

DOCUMENT_LABELS ==
    ("800-53_catalog" :> <<"N", "I", "S", "T", " ", "S", "P", " ", "8", "0",
          "0", "-", "5", "3", " ", "R", "e", "v", ".", " ", "5", " ", "C",
          "o", "n", "t", "r", "o", "l", " ", "C", "a", "t", "a", "l", "o",
          "g">>) @@
    ("800-53_xml" :> <<"N", "I", "S", "T", " ", "S", "P", " ", "8", "0", "0",
          "-", "5", "3", " ", "R", "e", "v", ".", " ", "5", " ", "C", "o",
          "n", "t", "r", "o", "l", " ", "C", "a", "t", "a", "l", "o", "g",
          " ", "(", "X", "M", "L", ")">>) @@
    ("800-53a_assessment" :> <<"N", "I", "S", "T", " ", "S", "P", " ", "8",
          "0", "0", "-", "5", "3", "A", " ", "R", "e", "v", ".", " ", "5",
          " ", "A", "s", "s", "e", "s", "s", "m", "e", "n", "t", " ", "P",
          "r", "o", "c", "e", "d", "u", "r", "e", "s">>) @@
    ("800-37_rmf" :> <<"N", "I", "S", "T", " ", "S", "P", " ", "8", "0", "0",
          "-", "3", "7", " ", "R", "e", "v", ".", " ", "2", " ", "R", "M",
          "F", " ", "L", "i", "f", "e", "c", "y", "c", "l", "e">>) @@
    ("csf_2.0" :> <<"N", "I", "S", "T", " ", "C", "y", "b", "e", "r", "s",
          "e", "c", "u", "r", "i", "t", "y", " ", "F", "r", "a", "m", "e",
          "w", "o", "r", "k", " ", "2", ".", "0">>) @@
    ("800-171" :> <<"N", "I", "S", "T", " ", "S", "P", " ", "8", "0", "0",
          "-", "1", "7", "1", " ", "R", "e", "v", ".", " ", "3", " ", "(",
          "C", "U", "I", " ", "R", "e", "q", "u", "i", "r", "e", "m", "e",
          "n", "t", "s", ")">>) @@
    ("fedramp" :> <<"F", "e", "d", "R", "A", "M", "P", " ", "S", "e", "c",
          "u", "r", "i", "t", "y", " ", "B", "a", "s", "e", "l", "i", "n",
          "e">>) @@
    ("dod_srg" :> <<"D", "o", "D", " ", "C", "l", "o", "u", "d", " ", "S",
          "R", "G", " ", "(", "I", "L", "2", "-", "I", "L", "6", ")">>) @@
    ("cmmc" :> <<"C", "M", "M", "C", " ", "(", "C", "y", "b", "e", "r", "s",
          "e", "c", "u", "r", "i", "t", "y", " ", "M", "a", "t", "u", "r",
          "i", "t", "y", " ", "M", "o", "d", "e", "l", " ", "C", "e", "r",
          "t", "i", "f", "i", "c", "a", "t", "i", "o", "n", ")">>) @@
    ("security_pattern" :> <<"S", "e", "c", "u", "r", "i", "t", "y", " ",
          "P", "a", "t", "t", "e", "r", "n", " ", "D", "o", "c", "u", "m",
          "e", "n", "t", "a", "t", "i", "o", "n">>) @@
    ("positioning_guide" :> <<"D", "e", "v", "i", "c", "e", " ", "P", "o",
          "s", "i", "t", "i", "o", "n", "i", "n", "g", " ", "B", "e", "s",
          "t", " ", "P", "r", "a", "c", "t", "i", "c", "e", "s">>) @@
    ("zone_guide" :> <<"S", "e", "c", "u", "r", "i", "t", "y", " ", "Z", "o",
          "n", "e", " ", "R", "e", "l", "a", "t", "i", "o", "n", "s", "h",
          "i", "p", "s">>) @@
    ("grouping_guide" :> <<"D", "e", "v", "i", "c", "e", " ", "G", "r", "o",
          "u", "p", "i", "n", "g", " ", "P", "a", "t", "t", "e", "r", "n",
          "s">>) @@
    ("segmentation_guide" :> <<"N", "e", "t", "w", "o", "r", "k", " ", "S",
          "e", "g", "m", "e", "n", "t", "a", "t", "i", "o", "n", " ", "S",
          "t", "r", "a", "t", "e", "g", "i", "e", "s">>) @@
    ("query_patterns" :> <<"Q", "u", "e", "r", "y", " ", "P", "a", "t", "t",
          "e", "r", "n", "s", " ", "a", "n", "d", " ", "C", "o", "m", "m",
          "o", "n", " ", "G", "r", "e", "e", "t", "i", "n", "g", "s">>) @@
    ("default" :> <<"S", "o", "u", "r", "c", "e", " ", "D", "o", "c", "u",
          "m", "e", "n", "t">>)

\* separator.join(parts)
RECURSIVE JoinWith(_, _)
JoinWith(separator, parts) ==
    IF parts = <<>> THEN <<>>
    ELSE IF Len(parts) = 1 THEN parts[1]
    ELSE parts[1] \o separator \o JoinWith(separator, Tail(parts))

\* _build_context_prefix(metadata, document_type)
build_context_prefix(metadata, document_type) ==
    LET field(key, lead) ==
            IF Truthy(metadata, key) THEN <<lead \o metadata[key]>> ELSE <<>>
        label == IF document_type \in DOMAIN DOCUMENT_LABELS
                    /\ DOCUMENT_LABELS[document_type] # <<>>
                 THEN <<DOCUMENT_LABELS[document_type]>> ELSE <<>>
        control_part ==
            <<"C", "o", "n", "t", "r", "o", "l",
                  " ">> \o metadata["control_id"]
            \o (IF Truthy(metadata, "control_name")
                THEN <<" ", "-", " ">> \o metadata["control_name"] ELSE <<>>)
            \o (IF Truthy(metadata, "family")
                THEN <<" ", "(", "F", "a", "m", "i", "l", "y",
                      " ">> \o metadata["family"] \o <<")">> ELSE <<>>)
            \o (IF Truthy(metadata, "enhancement_number")
                THEN <<" ", "E", "n", "h", "a", "n", "c", "e", "m", "e", "n",
                      "t", " ">> \o metadata["enhancement_number"]
                ELSE <<>>)
        parts ==
            label
            \o field("section_heading", <<"S", "e", "c", "t", "i", "o", "n",
                  ":", " ">>)
            \o (IF Truthy(metadata,
                  "control_id") THEN <<control_part>> ELSE <<>>)
            \o field("task_id", <<"T", "a", "s", "k", ":", " ">>)
            \o field("step", <<"S", "t", "e", "p", ":", " ">>)
            \o field("function", <<"F", "u", "n", "c", "t", "i", "o", "n",
                  ":", " ">>)
            \o field("category", <<"C", "a", "t", "e", "g", "o", "r", "y",
                  ":", " ">>)
            \o field("impact_level", <<"I", "m", "p", "a", "c", "t", " ",
                  "L", "e", "v", "e", "l", ":", " ">>)
            \o field("baseline_level", <<"B", "a", "s", "e", "l", "i", "n",
                  "e", ":", " ">>)
            \o field("page", <<"P", "a", "g", "e", " ">>)
            \o field("sheet", <<"S", "h", "e", "e", "t", ":", " ">>)
    IN  JoinWith(<<" ", "|", " ">>, parts)

(***************************************************************************)
(* metadata_enhancer.py: rule-based hypothetical questions.  A question is *)
(* a string; the literal fragments of its template are written as single   *)
(* elements, the interpolated values character by character.  The fixed    *)
(* question of the csf_2.0 branch is written as the category template      *)
(* filled with "Cybersecurity Framework", so that it equals the category   *)
(* question of that category, as the two strings do.                       *)
(***************************************************************************)
IsUpper(c) ==
    c \in {"A", "B", "C", "D", "E", "F", "G", "H", "I", "J", "K", "L", "M",
           "N", "O", "P", "Q", "R", "S", "T", "U", "V", "W", "X", "Y", "Z"}

IsLower(c) ==
    c \in {"a", "b", "c", "d", "e", "f", "g", "h", "i", "j", "k", "l", "m",
           "n", "o", "p", "q", "r", "s", "t", "u", "v", "w", "x", "y", "z"}

\* \w of the regular expressions, and \b before position p.
IsRegexWord(c) == IsWordChar(c) \/ c = "_"

BoundaryBefore(t, p) ==
    (p > 1 /\ IsRegexWord(t[p - 1])) # (p <= Len(t) /\ IsRegexWord(t[p]))

\* seq[:n]
Take(seq, n) == SubSeq(seq, 1, IF Len(seq) < n THEN Len(seq) ELSE n)

\* The elements of seq at the positions in keep, in order.
SelectAt(seq, keep) ==
    LET idx == SortedRange(keep, 1, Len(seq))
    IN  [k \in 1..Len(idx) |-> seq[idx[k]]]

\* list(dict.fromkeys(seq)): first occurrences, in order.
Dedup(seq) ==
    SelectAt(seq, {i \in 1..Len(seq) : \A j \in 1..(i - 1) : seq[j] # seq[i]})

\* [A-Z][a-z]+ at p, and the end of its run of lower-case letters.
CapWord(t, p) == p < Len(t) /\ IsUpper(t[p]) /\ IsLower(t[p + 1])

CapWordEnd(t, p) ==
    Min({j \in (p + 1)..(Len(t) + 1) : j = Len(t) + 1 \/ ~IsLower(t[j])}) - 1

\* The position after the whitespace that follows position e (0: none).
AfterSpace(t, e) ==
    LET q == Min({j \in (e + 1)..(Len(t) + 1) : j = Len(t) + 1 \/ ~IsSpace(t[j])})
    IN  IF q > e + 1 /\ q <= Len(t) THEN q ELSE 0

\* \s+[A-Z][a-z]+ after position e, followed by \b or by a further group.
NextCap(t, e) ==
    LET q == AfterSpace(t, e)
    IN  IF q # 0 /\ CapWord(t, q)
           /\ LET e2 == CapWordEnd(t, q)
              IN  e2 = Len(t) \/ ~IsRegexWord(t[e2 + 1])
        THEN q ELSE 0

RECURSIVE CapMatchEnd(_, _)
CapMatchEnd(t, p) ==
    LET e == CapWordEnd(t, p)
        q == NextCap(t, e)
    IN  IF q = 0 THEN e ELSE CapMatchEnd(t, q)

\* re.findall(r'\b[A-Z][a-z]+(?:\s+[A-Z][a-z]+)+\b', text)
FindCapitalized(t) ==
    LET head(p) == CapWord(t, p) /\ BoundaryBefore(t, p)
        starts == {p \in 1..Len(t) :
                     /\ head(p)
                     /\ NextCap(t, CapWordEnd(t, p)) # 0
                     /\ ~\E q \in 1..(p - 1) :
                            head(q) /\ AfterSpace(t, CapWordEnd(t, q)) = p}
        idx == SortedRange(starts, 1, Len(t))
    IN  [k \in 1..Len(idx) |-> SubSeq(t, idx[k], CapMatchEnd(t, idx[k]))]

\* re.findall(r'\b[A-Z]{2,6}\b', text)
FindAcronyms(t) ==
    LET runEnd(p) ==
            Min({j \in (p + 1)..(Len(t) + 1) : j = Len(t) + 1 \/ ~IsUpper(t[j])}) - 1
        starts == {p \in 1..Len(t) :
                     /\ IsUpper(t[p])
                     /\ BoundaryBefore(t, p)
                     /\ LET e == runEnd(p)
                        IN  /\ e - p + 1 >= 2
                            /\ e - p + 1 <= 6
                            /\ (e = Len(t) \/ ~IsRegexWord(t[e + 1]))}
        idx == SortedRange(starts, 1, Len(t))
    IN  [k \in 1..Len(idx) |-> SubSeq(t, idx[k], runEnd(idx[k]))]

pattern_terms ==
    << <<"z", "e", "r", "o", " ", "t", "r", "u", "s", "t">>, <<"d", "m",
          "z">>, <<"d", "e", "f", "e", "n", "s", "e", " ", "i", "n", " ",
          "d", "e", "p", "t", "h">>, <<"s", "e", "g", "m", "e", "n", "t",
          "a", "t", "i", "o", "n">>,
       <<"m", "i", "c", "r", "o", "-", "s", "e", "g", "m", "e", "n", "t",
             "a", "t", "i", "o", "n">>, <<"n", "e", "t", "w", "o", "r", "k",
             " ", "i", "s", "o", "l", "a", "t", "i", "o", "n">>,
       <<"p", "e", "r", "i", "m", "e", "t", "e", "r", " ", "s", "e", "c",
             "u", "r", "i", "t", "y">>, <<"f", "i", "r", "e", "w", "a", "l",
             "l">>, <<"i", "n", "t", "r", "u", "s", "i", "o", "n", " ", "d",
             "e", "t", "e", "c", "t", "i", "o", "n">>,
       <<"i", "n", "t", "r", "u", "s", "i", "o", "n", " ", "p", "r", "e",
             "v", "e", "n", "t", "i", "o", "n">>, <<"l", "o", "a", "d", " ",
             "b", "a", "l", "a", "n", "c", "e", "r">>, <<"p", "r", "o", "x",
             "y">>,
       <<"g", "a", "t", "e", "w", "a", "y">> >>

\* _extract_key_terms(text, pattern_type)
extract_key_terms(text, pattern_type) ==
    LET text_lower == Lower(text)
        found == IF pattern_type
                 THEN SelectAt(pattern_terms,
                               {k \in 1..Len(pattern_terms) :
                                    Contains(text_lower, pattern_terms[k])})
                 ELSE <<>>
        terms == found \o Take(FindCapitalized(text), 3)
                       \o Take(FindAcronyms(text), 3)
    IN  Take(terms, 5)

\* any(word in text.lower() for word in words)
AnyWordIn(text, words) == \E w \in words : Contains(Lower(text), w)

\* _generate_control_questions(text, metadata)
generate_control_questions(text, metadata) ==
    LET control_id == Get(metadata, "control_id", <<>>)
        control_name == Get(metadata, "control_name", <<>>)
        family == Get(metadata, "family", <<>>)
        enhancement_number == Get(metadata, "enhancement_number", <<>>)
        has_id == Truthy(metadata, "control_id")
    IN  (IF has_id
         THEN << <<"What is the purpose of control ">> \o control_id \o <<"?">>,
                 <<"What are the requirements for ">> \o control_id \o <<"?">> >>
              \o (IF Truthy(metadata, "control_name")
                  THEN << <<"How do I implement ">> \o control_name \o <<"?">>,
                          <<"What does ">> \o control_name \o <<" require?">> >>
                  ELSE <<>>)
              \o (IF Truthy(metadata, "enhancement_number")
                  THEN << <<"What does enhancement ">> \o enhancement_number
                          \o <<" of ">> \o control_id \o <<" add?">> >>
                  ELSE <<>>)
              \o (IF Contains(Lower(Get(metadata, "source", <<>>)), <<"a",
                    "s", "s", "e", "s", "s", "m", "e", "n", "t">>)
                  THEN << <<"How do you assess ">> \o control_id \o <<"?">>,
                          <<"What are the assessment procedures for ">>
                          \o control_id \o <<"?">> >>
                  ELSE <<>>)
         ELSE <<>>)
        \o (IF Truthy(metadata, "family")
            THEN << <<"What are the ">> \o family \o <<" family requirements?">> >>
            ELSE <<>>)
        \o (IF Contains(Lower(text), <<"b", "a", "s", "e", "l", "i", "n",
              "e">>)
            THEN << <<"What baseline applies to ">>
                    \o (IF has_id THEN control_id ELSE <<"this control">>)
                    \o <<"?">> >>
            ELSE <<>>)
        \o (IF AnyWordIn(text, {<<"s", "h", "a", "l", "l">>, <<"m", "u", "s",
              "t">>, <<"r", "e", "q", "u", "i", "r", "e", "d">>})
            THEN << <<"What are the mandatory requirements for ">>
                    \o (IF has_id THEN control_id ELSE <<"this">>)
                    \o <<"?">> >>
            ELSE <<>>)

\* The loop of _generate_pattern_questions over pattern_keywords[:2].
RECURSIVE KeywordQuestions(_)
KeywordQuestions(keywords) ==
    IF keywords = <<>> THEN <<>>
    ELSE << <<"How do I implement ">> \o keywords[1] \o <<"?">>,
            <<"What are the best practices for ">> \o keywords[1] \o <<"?">> >>
         \o KeywordQuestions(Tail(keywords))

\* _generate_pattern_questions(text, metadata, document_type)
generate_pattern_questions(text, metadata, document_type) ==
    LET pattern_keywords == extract_key_terms(text, TRUE)
    IN  IF document_type = "security_pattern"
        THEN KeywordQuestions(Take(pattern_keywords, 2))
             \o << <<"What security patterns should I use?">> >>
             \o (IF Contains(Lower(text), <<"z", "e", "r", "o", " ", "t",
                   "r", "u", "s", "t">>)
                 THEN << <<"How do I implement zero trust architecture?">> >>
                 ELSE <<>>)
             \o (IF Contains(Lower(text), <<"d", "m", "z">>)
                 THEN << <<"How should I configure my DMZ?">> >>
                 ELSE <<>>)
        ELSE IF document_type = "positioning_guide"
        THEN << <<"Where should I position security devices?">>,
                <<"What are the best practices for device placement?">> >>
        ELSE IF document_type = "zone_guide"
        THEN << <<"How should I segment network zones?">>,
                <<"What are the security zone requirements?">> >>
        ELSE IF document_type = "grouping_guide"
        THEN << <<"How should I group devices?">>,
                <<"What are device grouping best practices?">> >>
        ELSE IF document_type = "segmentation_guide"
        THEN << <<"How do I segment my network?">>,
                <<"What are network segmentation strategies?">> >>
        ELSE <<>>

\* _generate_framework_questions(text, metadata, document_type)
generate_framework_questions(text, metadata, document_type) ==
    IF document_type = "800-37_rmf"
    THEN (IF Truthy(metadata, "task_id")
          THEN << <<"What is task ">> \o metadata["task_id"] \o <<" in the RMF?">>,
                  <<"How do I complete task ">> \o metadata["task_id"] \o <<"?">> >>
          ELSE <<>>)
         \o (IF Truthy(metadata, "step")
             THEN << <<"What are the requirements for RMF step ">>
                     \o metadata["step"] \o <<"?">> >>
             ELSE <<>>)
         \o << <<"What are the RMF steps?">>,
               <<"How do I implement the Risk Management Framework?">> >>
    ELSE IF document_type = "csf_2.0"
    THEN (IF Truthy(metadata, "function")
          THEN << <<"What is the ">> \o metadata["function"]
                  \o <<" function in the CSF?">> >>
          ELSE <<>>)
         \o (IF Truthy(metadata, "category")
             THEN << <<"What are the ">> \o metadata["category"]
                     \o <<" requirements?">> >>
             ELSE <<>>)
         \o << <<"What are the ">>
                 \o <<"C", "y", "b", "e", "r", "s", "e", "c", "u", "r", "i",
                       "t", "y", " ", "F", "r", "a", "m", "e", "w", "o", "r",
                       "k">>
                 \o <<" requirements?">> >>
    ELSE <<>>

\* text.split('?')
SplitOnQuestionMark(text) ==
    LET cuts == SortedRange({i \in 1..Len(text) : text[i] = "?"}, 1,
          Len(text))
        n == Len(cuts)
    IN  [j \in 1..(n + 1) |->
            SubSeq(text,
                   IF j = 1 THEN 1 ELSE cuts[j - 1] + 1,
                   IF j = n + 1 THEN Len(text) ELSE cuts[j] - 1)]

\* _generate_query_pattern_questions(text, metadata)
generate_query_pattern_questions(text, metadata) ==
    IF Contains(text, <<"?">>)
    THEN LET segments == SplitOnQuestionMark(text)
             kept == SelectAt(segments,
                              {j \in 1..Len(segments) : Strip(segments[j]) # <<>>})
             existing_questions ==
                 [j \in 1..Len(kept) |-> Strip(kept[j]) \o <<"?">>]
         IN  Take(existing_questions, 3)
    ELSE << <<"What are common questions about compliance?">>,
            <<"What should I ask about security requirements?">> >>

\* _generate_generic_questions(text, metadata)
generate_generic_questions(text, metadata) ==
    LET key_terms == extract_key_terms(text, FALSE)
    IN  (IF key_terms # <<>>
         THEN << <<"What is ">> \o key_terms[1] \o <<"?">>,
                 <<"How does ">> \o key_terms[1] \o <<" work?">>,
                 <<"What are the requirements for ">> \o key_terms[1] \o <<"?">> >>
         ELSE <<>>)
        \o (IF AnyWordIn(text, {<<"r", "e", "q", "u", "i", "r", "e", "m",
              "e", "n", "t">>, <<"m", "u", "s", "t">>, <<"s", "h", "a", "l",
              "l">>})
            THEN << <<"What are the requirements?">> >> ELSE <<>>)
        \o (IF AnyWordIn(text, {<<"i", "m", "p", "l", "e", "m", "e", "n",
              "t">>, <<"d", "e", "p", "l", "o", "y">>, <<"c", "o", "n", "f",
              "i", "g", "u", "r", "e">>})
            THEN << <<"How do I implement this?">> >> ELSE <<>>)
        \o (IF AnyWordIn(text, {<<"a", "s", "s", "e", "s", "s">>, <<"e", "v",
              "a", "l", "u", "a", "t", "e">>})
            THEN << <<"How do I assess this?">> >> ELSE <<>>)
        \o (IF Truthy(metadata, "section_heading")
            THEN << <<"What is covered in ">> \o metadata["section_heading"]
                    \o <<"?">> >>
            ELSE <<>>)

ControlFamily ==
    {"800-53_catalog", "800-53a_assessment", "800-171", "fedramp", "cmmc",
     "dod_srg", "cnssi_1253", "overlays"}

PatternFamily ==
    {"security_pattern", "positioning_guide", "zone_guide", "grouping_guide",
     "segmentation_guide"}

FrameworkFamily == {"800-37_rmf", "csf_2.0"}

\* The candidate questions of the document type's family.
question_candidates(text, metadata, document_type) ==
    IF document_type \in ControlFamily
    THEN generate_control_questions(text, metadata)
    ELSE IF document_type \in PatternFamily
    THEN generate_pattern_questions(text, metadata, document_type)
    ELSE IF document_type \in FrameworkFamily
    THEN generate_framework_questions(text, metadata, document_type)
    ELSE IF document_type = "query_patterns"
    THEN generate_query_pattern_questions(text, metadata)
    ELSE generate_generic_questions(text, metadata)

\* The candidates cut to three with line 48 left out: the fault C18
\* excludes.
generate_hypothetical_questions_without_dedup(text, metadata, document_type) ==
    Take(question_candidates(text, metadata, document_type), 3)

\* generate_hypothetical_questions(text, metadata, document_type, 3)
generate_hypothetical_questions(text, metadata, document_type) ==
    Take(Dedup(question_candidates(text, metadata, document_type)), 3)

\* metadata.get('source', '').lower() in _generate_control_questions raises
\* on a source that is no string.
enhance_raises(chunk, document_type) ==
    /\ document_type \in ControlFamily
    /\ Truthy(chunk.metadata, "control_id")
    /\ ~IsStr(Get(chunk.metadata, "source", <<>>))

\* The questions appended to the list the metadata already has: the fault
\* C19 excludes.
enhance_chunk_metadata_appending(chunk, document_type, enable_questions) ==
    IF ~enable_questions THEN chunk
    ELSE LET questions ==
                 Get(chunk.metadata, "hypothetical_questions", <<>>)
                 \o generate_hypothetical_questions(
                        chunk.text, chunk.metadata, document_type)
         IN  IF questions # <<>>
             THEN [text |-> chunk.text,
                   metadata |->
                       Update(chunk.metadata,
                              [hypothetical_questions |-> questions,
                               question_count |-> Len(questions),
                               questions_text |-> JoinWith(<<" ">>,
                                     questions)])]
             ELSE chunk

\* The question keys put in a metadata of their own, line 248 left out: the
\* fault C20 excludes.
enhance_chunk_metadata_without_copy(chunk, document_type, enable_questions) ==
    IF ~enable_questions THEN chunk
    ELSE LET questions == generate_hypothetical_questions(
                              chunk.text, chunk.metadata, document_type)
         IN  IF questions # <<>>
             THEN [text |-> chunk.text,
                   metadata |->
                       [hypothetical_questions |-> questions,
                        question_count |-> Len(questions),
                        questions_text |-> JoinWith(<<" ">>, questions)]]
             ELSE chunk

\* enhance_chunk_metadata(chunk, document_type, enable_questions)
enhance_chunk_metadata(chunk, document_type, enable_questions) ==
    IF ~enable_questions THEN chunk
    ELSE LET questions == generate_hypothetical_questions(
                              chunk.text, chunk.metadata, document_type)
         IN  IF questions # <<>>
             THEN [text |-> chunk.text,
                   metadata |->
                       Update(chunk.metadata,
                              [hypothetical_questions |-> questions,
                               question_count |-> Len(questions),
                               questions_text |-> JoinWith(<<" ">>,
                                     questions)])]
             ELSE chunk

\* batch_enhance_chunks(chunks, document_type, enable_questions)
batch_enhance_chunks(chunks, document_type, enable_questions) ==
    IF ~enable_questions THEN chunks
    ELSE [i \in 1..Len(chunks) |->
            enhance_chunk_metadata(chunks[i], document_type,
                  enable_questions)]

(***************************************************************************)
(* The documents the model is run on.  A text is built from the word "a":  *)
(* Words(n) is n words separated by single spaces (n tokens), Letters(n)   *)
(* one word of n letters (one token, n characters), and Paragraphs joins   *)
(* runs of words by blank lines (one more token for each blank line).      *)
(***************************************************************************)
Words(n) == [i \in 1..(2 * n - 1) |-> IF i % 2 = 1 THEN "a" ELSE " "]

Letters(n) == [i \in 1..n |-> "a"]

BlankLine == <<"\n", "\n">>

RECURSIVE Paragraphs(_)
Paragraphs(sizes) ==
    IF sizes = <<>> THEN <<>>
    ELSE IF Len(sizes) = 1 THEN Words(sizes[1])
    ELSE Words(sizes[1]) \o BlankLine \o Paragraphs(Tail(sizes))

\* The text argument of chunk_text.
Texts ==
    { <<>>,
      <<" ", "\n">>,
      <<" ", "a", " ", "b", "\n">>,
      <<"a", "?", " ", "b">>,
      Paragraphs(<<150, 149>>),
      Paragraphs(<<200, 200>>),
      Paragraphs(<<150, 149, 150, 149>>),
      Words(191) \o BlankLine \o BlankLine \o Words(192),
      Words(520),
      Letters(513) }

\* The metadata argument of chunk_text: a bare source, a control record
\* that already carries a chunk_index, and an empty dict.
Metadatas ==
    { [source |-> <<"n", "o", "t", "e", "s", ".", "t", "x", "t">>],
      [source |-> <<"c", "m", "m", "c", "_", "l", "2", ".", "t", "x", "t">>,
       control_id |-> <<"A", "C", "-", "3">>,
       control_name |-> <<"A", "c", "c", "e", "s", "s", " ", "E", "n", "f",
                          "o", "r", "c", "e", "m", "e", "n", "t">>,
       family |-> <<"A", "C">>,
       chunk_index |-> 7],
      <<>> }

\* The document_type argument: no tag (None), every tag of the table, and a
\* tag the table does not list.
Tags == {NoneTag, "unlisted"} \cup DOMAIN CHUNKING_CONFIG

(***************************************************************************)
(* chunker.py: chunk_text.                                                 *)
(***************************************************************************)
\* prepend_context with one newline after the prefix: the fault C24
\* excludes.
prepend_context_without_blank_line(content, context_prefix) ==
    LET stripped == Strip(content)
    IN  IF stripped = <<>> THEN stripped
        ELSE IF context_prefix # <<>>
        THEN context_prefix \o <<"\n">> \o stripped
        ELSE stripped

\* prepend_context(content), the closure of chunk_text over context_prefix.
prepend_context(content, context_prefix) ==
    LET stripped == Strip(content)
    IN  IF stripped = <<>> THEN stripped
        ELSE IF context_prefix # <<>>
        THEN context_prefix \o <<"\n", "\n">> \o stripped
        ELSE stripped

\* Lines 275-277: the document type chunk_text works with.
resolve_document_type(metadata, document_type) ==
    IF document_type = NoneTag
    THEN detect_document_type(Get(metadata, "source", <<>>), metadata)
    ELSE document_type

\* Lines 299-311: the whole text as one chunk.
single_chunk(text, metadata, document_type, context_prefix, text_token_count) ==
    LET chunk_metadata ==
            Update(metadata, [chunk_index |-> 0,
                              document_type |-> document_type,
                              token_count |-> text_token_count,
                              is_small_chunk |-> FALSE])
    IN  << [text |-> prepend_context(text, context_prefix),
            metadata |-> IF context_prefix # <<>>
                         THEN Update(chunk_metadata,
                                     [context_prefix |-> context_prefix])
                         ELSE chunk_metadata] >>

\* Lines 330-333: the metadata every chunk of the document starts from.
chunk_metadata_base(metadata, document_type, context_prefix) ==
    LET base == Update(metadata, [document_type |-> document_type])
    IN  IF context_prefix # <<>>
        THEN Update(base, [context_prefix |-> context_prefix])
        ELSE base

\* Lines 375-387: each parent span emitted directly.
parent_chunk_list(parent_chunks, base, context_prefix) ==
    [k \in 1..Len(parent_chunks) |->
        LET idx == k - 1
            chunk == parent_chunks[k]
        IN  [text |-> prepend_context(chunk, context_prefix),
             metadata |-> Update(base, [chunk_index |-> idx,
                                        is_small_chunk |-> FALSE,
                                        token_count |-> count_tokens(chunk)])]]

\* small_chunks_of with token_count taken after the context prefix is put in
\* front: the fault C11 excludes.
small_chunks_of_counting_prefix(parent_idx, parent_chunk, small_chunks, before, base, context_prefix) ==
    [k \in 1..Len(small_chunks) |->
        [text |-> prepend_context(small_chunks[k], context_prefix),
         metadata |->
             Update(base,
                    [chunk_index |-> before + k - 1,
                     parent_chunk_id |-> "parent_" \o ToString(parent_idx),
                     parent_chunk_index |-> parent_idx,
                     small_chunk_index |-> k - 1,
                     is_small_chunk |-> TRUE,
                     token_count |->
                         count_tokens(prepend_context(small_chunks[k],
                                                      context_prefix)),
                     parent_token_count |-> count_tokens(parent_chunk),
                     parent_text |-> parent_chunk])]]

\* small_chunks_of with chunk_index counted from 0 under every parent: the
\* fault C4 excludes.
small_chunks_of_restarting(parent_idx, parent_chunk, small_chunks, before, base, context_prefix) ==
    [k \in 1..Len(small_chunks) |->
        [text |-> prepend_context(small_chunks[k], context_prefix),
         metadata |->
             Update(base,
                    [chunk_index |-> k - 1,
                     parent_chunk_id |-> "parent_" \o ToString(parent_idx),
                     parent_chunk_index |-> parent_idx,
                     small_chunk_index |-> k - 1,
                     is_small_chunk |-> TRUE,
                     token_count |-> count_tokens(small_chunks[k]),
                     parent_token_count |-> count_tokens(parent_chunk),
                     parent_text |-> parent_chunk])]]

\* small_chunks_of with the context prefix put before parent_text as well:
\* the fault C5 excludes.
small_chunks_of_prefixed_parent(parent_idx, parent_chunk, small_chunks, before, base, context_prefix) ==
    [k \in 1..Len(small_chunks) |->
        [text |-> prepend_context(small_chunks[k], context_prefix),
         metadata |->
             Update(base,
                    [chunk_index |-> before + k - 1,
                     parent_chunk_id |-> "parent_" \o ToString(parent_idx),
                     parent_chunk_index |-> parent_idx,
                     small_chunk_index |-> k - 1,
                     is_small_chunk |-> TRUE,
                     token_count |-> count_tokens(small_chunks[k]),
                     parent_token_count |-> count_tokens(parent_chunk),
                     parent_text |-> prepend_context(parent_chunk,
                                                     context_prefix)])]]

\* small_chunks_of with small_chunk_index running on from one parent to the
\* next: the fault C6 excludes.
small_chunks_of_running_index(parent_idx, parent_chunk, small_chunks, before, base, context_prefix) ==
    [k \in 1..Len(small_chunks) |->
        [text |-> prepend_context(small_chunks[k], context_prefix),
         metadata |->
             Update(base,
                    [chunk_index |-> before + k - 1,
                     parent_chunk_id |-> "parent_" \o ToString(parent_idx),
                     parent_chunk_index |-> parent_idx,
                     small_chunk_index |-> before + k - 1,
                     is_small_chunk |-> TRUE,
                     token_count |-> count_tokens(small_chunks[k]),
                     parent_token_count |-> count_tokens(parent_chunk),
                     parent_text |-> parent_chunk])]]

\* Lines 356-373: the small chunks of one parent span, appended to a list
\* that holds before chunks already.
small_chunks_of(parent_idx, parent_chunk, small_chunks, before, base, context_prefix) ==
    [k \in 1..Len(small_chunks) |->
        LET small_idx == k - 1
            small_chunk == small_chunks[k]
        IN  [text |-> prepend_context(small_chunk, context_prefix),
             metadata |->
                 Update(base,
                        [chunk_index |-> before + small_idx,
                         parent_chunk_id |-> "parent_" \o ToString(parent_idx),
                         parent_chunk_index |-> parent_idx,
                         small_chunk_index |-> small_idx,
                         is_small_chunk |-> TRUE,
                         token_count |-> count_tokens(small_chunk),
                         parent_token_count |-> count_tokens(parent_chunk),
                         parent_text |-> parent_chunk])]]

\* Lines 338-373: the loop over the parent spans, from parent_idx on, with
\* chunk_documents the list built so far.
RECURSIVE small_chunk_list(_, _, _, _, _, _)
small_chunk_list(parent_chunks, parent_idx, chunk_documents, small_chunk_size, base, context_prefix) ==
    IF parent_idx >= Len(parent_chunks) THEN chunk_documents
    ELSE LET parent_chunk == parent_chunks[parent_idx + 1]
             small_overlap == calculate_adaptive_overlap(small_chunk_size)
             small_chunks == split_text(parent_chunk, small_chunk_size,
                                        small_overlap)
         IN  small_chunk_list(
                 parent_chunks, parent_idx + 1,
                 chunk_documents
                     \o small_chunks_of(parent_idx, parent_chunk,
                           small_chunks,
                                        Len(chunk_documents), base,
                                        context_prefix),
                 small_chunk_size, base, context_prefix)

\* Line 299: the whole text is emitted as one chunk.
suppress_split(text, document_type) ==
    LET config == get_chunking_config(document_type)
    IN  /\ Get(config, "one_per_control", FALSE)
        /\ count_tokens(text) <= Get(config, "chunk_size_tokens", 512)

\* Lines 318-328: the parent spans of the text.
parent_chunks_of(text, document_type) ==
    LET config == get_chunking_config(document_type)
    IN  split_text(text, Get(config, "chunk_size_tokens", 512),
                   Get(config, "chunk_overlap_tokens", 102))

\* hierarchy_applies without the test for a second parent span: the fault
\* C7 excludes.
hierarchy_applies_to_one_parent(parent_chunks, document_type, enable_small2big) ==
    /\ Get(get_chunking_config(document_type), "use_small2big", FALSE)
    /\ enable_small2big

\* Lines 282 and 337: the hierarchy is built.
hierarchy_applies(parent_chunks, document_type, enable_small2big) ==
    /\ Get(get_chunking_config(document_type), "use_small2big", FALSE)
    /\ enable_small2big
    /\ Len(parent_chunks) > 1

\* small2big_chunks with the parent budget used for the small splitter too:
\* the fault C8 excludes.
small2big_chunks_parent_budget(parent_chunks, metadata, document_type, small_splitter) ==
    LET context_prefix == build_context_prefix(metadata, document_type)
    IN  small_chunk_list(
            parent_chunks, 0, <<>>,
            Get(get_chunking_config(document_type), "chunk_size_tokens", 512),
            chunk_metadata_base(metadata, document_type, context_prefix),
            context_prefix)

\* Lines 338-373: the small chunks of all parent spans.  small_splitter is
\* _splitter_cache[small_cache_key], line 348; the overlap of a small
\* splitter is calculate_adaptive_overlap of its chunk size (lines 338-345),
\* which small_chunk_list computes.
small2big_chunks(parent_chunks, metadata, document_type, small_splitter) ==
    LET context_prefix == build_context_prefix(metadata, document_type)
    IN  small_chunk_list(
            parent_chunks, 0, <<>>,
            small_splitter.chunk_size,
            chunk_metadata_base(metadata, document_type, context_prefix),
            context_prefix)

\* Lines 374-387: the parent spans as chunks.
direct_chunks(parent_chunks, metadata, document_type) ==
    LET context_prefix == build_context_prefix(metadata, document_type)
    IN  parent_chunk_list(
            parent_chunks,
            chunk_metadata_base(metadata, document_type, context_prefix),
            context_prefix)

\* The key of the parent splitter and of the small splitter in
\* _splitter_cache.
cache_key(document_type) ==
    LET config == get_chunking_config(document_type)
    IN  <<Get(config, "chunk_size_tokens", 512),
          Get(config, "chunk_overlap_tokens", 102), "tokens">>

\* The small splitter with chunk size and overlap exchanged: the fault C17
\* excludes.
small_cache_key_exchanged(document_type) ==
    LET small_chunk_size ==
            Get(get_chunking_config(document_type), "small_chunk_size", 256)
    IN  <<calculate_adaptive_overlap(small_chunk_size), small_chunk_size,
          "tokens_small">>

small_cache_key(document_type) ==
    LET small_chunk_size ==
            Get(get_chunking_config(document_type), "small_chunk_size", 256)
    IN  <<small_chunk_size, calculate_adaptive_overlap(small_chunk_size),
          "tokens_small">>

\* _splitter_cache[key] with one splitter for each tier, the one of the
\* smallest sizes among the entries, whatever the sizes of the key: the
\* fault C30 excludes.
cached_splitter_shared(cache, key) ==
    LET entry == CHOOSE k \in cache :
                     /\ k[3] = key[3]
                     /\ \A other \in cache :
                            other[3] = key[3] =>
                                \/ k[1] < other[1]
                                \/ k[1] = other[1] /\ k[2] <= other[2]
    IN  [chunk_size |-> entry[1], chunk_overlap |-> entry[2]]

\* _splitter_cache[key], lines 327 and 348: the splitter stored under the
\* key, which was built with the chunk size and the overlap the key is made
\* of (lines 318-324 and 339-346).
cached_splitter(cache, key) ==
    LET entry == CHOOSE k \in cache : k = key
    IN  [chunk_size |-> entry[1], chunk_overlap |-> entry[2]]

\* text_splitter.split_text(text), line 328.
split_with(text_splitter, text) ==
    split_text(text, text_splitter.chunk_size, text_splitter.chunk_overlap)

(***************************************************************************)
(* State.                                                                  *)
(*   calls             the chunk_text calls made so far: for each call its *)
(*                     arguments, its position pc in chunk_text, its       *)
(*                     parent_chunks and its chunk_documents (chunks; at   *)
(*                     "returned" the list the call returns).  In a batch  *)
(*                     there is one call for each document handled: the    *)
(*                     futures of the pool, or the calls of the calling    *)
(*                     thread itself.                                      *)
(*   module globals:                                                       *)
(*     token_counter_set _token_counter is not None                        *)
(*     splitter_cache    the keys of _splitter_cache                       *)
(*     tokenizer_cache   the keys of _tokenizer_cache                      *)
(*   chunk_documents, one call:                                            *)
(*     batch             the arguments of the call                         *)
(*     cpu_count         multiprocessing.cpu_count()                       *)
(*     pc                the position of the calling thread                *)
(*     doc_idx           the number of documents the loop has handled      *)
(*     yielded           the futures as_completed has yielded (positions   *)
(*                       in calls)                                         *)
(*     all_chunks        all_chunks                                        *)
(*     origin            for each element of all_chunks, the position in   *)
(*                       documents of the document it comes from (a        *)
(*                       history variable: the code keeps no such list)    *)
(*     result            the list the call returns                         *)
(*   calls of the parts on their own:                                      *)
(*     classifier        a call of detect_document_type and of             *)
(*                       get_chunking_config: arguments, position, result  *)
(*     splitter          a call of split_text on a splitter of its own     *)
(*     enhancer          calls of enhance_chunk_metadata on one chunk      *)
(*     labeller          a call of _build_context_prefix                   *)
(*     token_utils       calls of the functions of token_utils.py          *)
(*     memory            the dict objects chunk_text reads and writes      *)
(***************************************************************************)
VARIABLES calls, token_counter_set, splitter_cache, tokenizer_cache,
          batch, cpu_count, pc, doc_idx, yielded, all_chunks, origin, result,
          classifier, splitter, enhancer, labeller, token_utils, memory

cache_vars == <<token_counter_set, splitter_cache, tokenizer_cache>>

batch_vars == <<batch, cpu_count, pc, doc_idx, yielded, all_chunks, origin, result>>

unit_vars == <<classifier, splitter, enhancer, labeller, token_utils, memory>>

chunker_vars == <<calls, cache_vars, batch_vars>>

vars == <<calls, cache_vars, batch_vars, unit_vars>>

\* No call of a part on its own is in progress.
units_idle ==
    /\ classifier = [pc |-> "idle"]
    /\ splitter = [pc |-> "idle"]
    /\ enhancer = [pc |-> "idle"]
    /\ labeller = [pc |-> "idle"]
    /\ token_utils = [pc |-> "idle"]
    /\ memory = [pc |-> "idle"]

\* The module globals right after import: chunker.py lines 199-201 and
\* token_utils.py line 16.
caches_empty ==
    /\ token_counter_set = FALSE
    /\ splitter_cache = {}
    /\ tokenizer_cache = {}

\* get_tokenizer(): the encoding is cached on first use.
get_tokenizer(cache) == cache \cup {"cl100k_base"}

\* A call chunk_text(text, metadata, document_type, enable_small2big,
\* enable_questions) at position at.
new_call(text, metadata, document_type, enable_small2big, enable_questions, at) ==
    [pc |-> at, text |-> text, metadata |-> metadata,
     document_type |-> document_type,
     enable_small2big |-> enable_small2big,
     enable_questions |-> enable_questions,
     parent_chunks |-> <<>>, chunks |-> <<>>]

\* The call is over: it returned its chunks or raised.
is_done(call) == call.pc \in {"returned", "raised"}

\* The call is being executed by a thread.
is_running(call) ==
    call.pc \in {"called", "single", "split", "small2big", "direct", "enhance"}

(***************************************************************************)
(* chunk_text, step by step; i is the position of the call in calls.       *)
(***************************************************************************)
\* Lines 275-299: the type (detected when none is given), the config, the
\* prefix, the token counter and the token count of the text; then the
\* choice of the path.  detect_document_type raises on a source that is no
\* string, the tokenizer on a text that is no string.
chunk_text_prepare(i) ==
    /\ calls[i].pc = "called"
    /\ IF /\ calls[i].document_type = NoneTag
          /\ detect_raises(Get(calls[i].metadata, "source", <<>>))
       THEN /\ calls' = [calls EXCEPT ![i].pc = "raised"]
            /\ UNCHANGED cache_vars
       ELSE /\ token_counter_set' = TRUE
            /\ tokenizer_cache' = get_tokenizer(tokenizer_cache)
            /\ UNCHANGED splitter_cache
            /\ calls' =
                   IF ~IsStr(calls[i].text)
                   THEN [calls EXCEPT ![i].pc = "raised"]
                   ELSE [calls EXCEPT
                            ![i].document_type =
                                resolve_document_type(calls[i].metadata,
                                                      calls[i].document_type),
                            ![i].pc =
                                IF suppress_split(
                                       calls[i].text,
                                       resolve_document_type(
                                           calls[i].metadata,
                                           calls[i].document_type))
                                THEN "single" ELSE "split"]
    /\ UNCHANGED batch_vars
    /\ UNCHANGED unit_vars

\* Lines 299-311: one chunk for the whole text.
chunk_text_single(i) ==
    /\ calls[i].pc = "single"
    /\ calls' = [calls EXCEPT
                    ![i].chunks =
                        single_chunk(calls[i].text, calls[i].metadata,
                            calls[i].document_type,
                            build_context_prefix(calls[i].metadata,
                                                 calls[i].document_type),
                            count_tokens(calls[i].text)),
                    ![i].pc = "enhance"]
    /\ UNCHANGED cache_vars
    /\ UNCHANGED batch_vars
    /\ UNCHANGED unit_vars

\* Lines 318-337: the parent splitter, cached, splits the text.
chunk_text_split(i) ==
    /\ calls[i].pc = "split"
    /\ splitter_cache' = splitter_cache \cup {cache_key(calls[i].document_type)}
    /\ calls' = [calls EXCEPT
                    ![i].parent_chunks =
                        split_with(
                            cached_splitter(
                                splitter_cache
                                    \cup {cache_key(calls[i].document_type)},
                                cache_key(calls[i].document_type)),
                            calls[i].text),
                    ![i].pc = "emit"]
    /\ UNCHANGED <<token_counter_set, tokenizer_cache>>
    /\ UNCHANGED batch_vars
    /\ UNCHANGED unit_vars

\* Lines 337-373: the hierarchy applies; the small splitter, cached, splits
\* every parent span into small chunks.
chunk_text_small2big(i) ==
    /\ calls[i].pc = "emit"
    /\ hierarchy_applies(calls[i].parent_chunks, calls[i].document_type,
                         calls[i].enable_small2big)
    /\ splitter_cache' =
           splitter_cache \cup {small_cache_key(calls[i].document_type)}
    /\ calls' = [calls EXCEPT
                    ![i].chunks =
                        small2big_chunks(
                            calls[i].parent_chunks, calls[i].metadata,
                            calls[i].document_type,
                            cached_splitter(
                                splitter_cache
                                    \cup {small_cache_key(
                                              calls[i].document_type)},
                                small_cache_key(calls[i].document_type))),
                    ![i].pc = "enhance"]
    /\ UNCHANGED <<token_counter_set, tokenizer_cache>>
    /\ UNCHANGED batch_vars
    /\ UNCHANGED unit_vars

\* Lines 374-387: no hierarchy; every parent span is a chunk.
chunk_text_direct(i) ==
    /\ calls[i].pc = "emit"
    /\ ~hierarchy_applies(calls[i].parent_chunks, calls[i].document_type,
                          calls[i].enable_small2big)
    /\ calls' = [calls EXCEPT
                    ![i].chunks =
                        direct_chunks(calls[i].parent_chunks,
                                      calls[i].metadata,
                                      calls[i].document_type),
                    ![i].pc = "enhance"]
    /\ UNCHANGED cache_vars
    /\ UNCHANGED batch_vars
    /\ UNCHANGED unit_vars

\* Lines 313-316 and 389-392: the enhancement, when enabled, and the
\* return.  The enhancer raises on a source that is no string.
chunk_text_enhance(i) ==
    /\ calls[i].pc = "enhance"
    /\ calls' =
           IF /\ calls[i].enable_questions
              /\ calls[i].chunks # <<>>
              /\ enhance_raises(calls[i].chunks[1], calls[i].document_type)
           THEN [calls EXCEPT ![i].pc = "raised"]
           ELSE [calls EXCEPT
                    ![i].chunks =
                        batch_enhance_chunks(calls[i].chunks,
                                             calls[i].document_type,
                                             calls[i].enable_questions),
                    ![i].pc = "returned"]
    /\ UNCHANGED cache_vars
    /\ UNCHANGED batch_vars
    /\ UNCHANGED unit_vars

\* No chunk_documents call is in progress.
batch_idle ==
    /\ batch = [documents |-> <<>>, parallel |-> FALSE,
                enable_small2big |-> FALSE, enable_questions |-> FALSE]
    /\ cpu_count = 1
    /\ pc = "idle"
    /\ doc_idx = 0
    /\ yielded = {}
    /\ all_chunks = <<>>
    /\ origin = <<>>
    /\ result = <<>>

\* One chunk_text call on its own, on every input of the catalogue.
ChunkTextInit ==
    /\ \E text \in Texts, metadata \in Metadatas, document_type \in Tags,
          enable_small2big \in BOOLEAN, enable_questions \in BOOLEAN :
           calls = <<new_call(text, metadata, document_type, enable_small2big,
                              enable_questions, "called")>>
    /\ caches_empty
    /\ batch_idle
    /\ units_idle

ChunkTextNext ==
    \/ \E i \in 1..Len(calls) : chunk_text_prepare(i)
    \/ \E i \in 1..Len(calls) : chunk_text_single(i)
    \/ \E i \in 1..Len(calls) : chunk_text_split(i)
    \/ \E i \in 1..Len(calls) : chunk_text_small2big(i)
    \/ \E i \in 1..Len(calls) : chunk_text_direct(i)
    \/ \E i \in 1..Len(calls) : chunk_text_enhance(i)

SpecChunkText == ChunkTextInit /\ [][ChunkTextNext]_vars

(***************************************************************************)
(* chunk_documents(documents, parallel, enable_small2big,                  *)
(* enable_questions).                                                      *)
(***************************************************************************)
MaxDocs == 2

MaxCpus == 2

\* The documents of a batch.  Besides well-formed documents (one chunk of
\* an unsplit control text, two chunks under the hierarchy, two chunks
\* without it, one chunk of a text that fits the default budget only) there
\* are malformed ones: a text that is None, a source that is None and no
\* 'text' key.
DocCatalog ==
    { [text |-> <<" ", "a", " ", "b", "\n">>,
       metadata |-> [source |-> <<"f", "e", "d", "r", "a", "m", "p", ".",
                                  "t", "x", "t">>]],
      [text |-> Paragraphs(<<200, 200>>),
       metadata |-> [source |-> <<"c", "m", "m", "c", "_", "l", "2", ".",
                                  "t", "x", "t">>,
                     control_id |-> <<"A", "C", "-", "3">>]],
      [text |-> Paragraphs(<<200, 200>>),
       metadata |-> [source |-> <<"q", "u", "e", "r", "y", "_", "p", "a",
                                  "t", "t", "e", "r", "n", "s", ".", "t",
                                  "x", "t">>]],
      [text |-> Paragraphs(<<200, 200>>),
       metadata |-> [source |-> <<"b", ".", "t", "x", "t">>]],
      [text |-> NoneValue,
       metadata |-> [source |-> <<"b", ".", "t", "x", "t">>]],
      [text |-> <<"a", " ", "b">>,
       metadata |-> [source |-> NoneValue]],
      [metadata |-> [source |-> <<"b", ".", "t", "x", "t">>]] }

DocumentLists == UNION {[1..n -> DocCatalog] : n \in 0..MaxDocs}

Init ==
    /\ batch \in [documents : DocumentLists, parallel : BOOLEAN,
                  enable_small2big : BOOLEAN, enable_questions : BOOLEAN]
    /\ cpu_count = 1
    /\ pc = "called"
    /\ doc_idx = 0
    /\ calls = <<>>
    /\ yielded = {}
    /\ all_chunks = <<>>
    /\ origin = <<>>
    /\ result = <<>>
    /\ caches_empty
    /\ units_idle

\* Lines 399-440: the branch the call takes.
dispatch ==
    IF batch.documents = <<>> THEN "empty"
    ELSE IF Len(batch.documents) = 1 THEN "single"
    ELSE IF batch.parallel /\ Len(batch.documents) > 1 THEN "parallel"
    ELSE "sequential"

\* doc['metadata'].get('source', ''), detect_document_type(source,
\* doc['metadata']) and doc['text'] in the calling thread: a missing key, or
\* a source that is no string, raises.
reading_raises(doc) ==
    \/ "metadata" \notin DOMAIN doc
    \/ detect_raises(Get(doc.metadata, "source", <<>>))
    \/ "text" \notin DOMAIN doc

\* chunk_text(doc['text'], doc['metadata'], document_type, enable_small2big,
\* enable_questions) with document_type = detect_document_type(source,
\* doc['metadata']).
document_call(doc, at) ==
    new_call(doc.text, doc.metadata,
             detect_document_type(Get(doc.metadata, "source", <<>>),
                                  doc.metadata),
             batch.enable_small2big, batch.enable_questions, at)

\* all_chunks = chunks instead of all_chunks.extend(chunks): the fault C2
\* excludes.
extend_overwriting(list, chunks) == chunks

\* all_chunks.extend(reversed(chunks)): the fault C3 excludes.
extend_reversed(list, chunks) ==
    list \o [k \in 1..Len(chunks) |-> chunks[Len(chunks) + 1 - k]]

\* all_chunks.extend(chunks)
extend(list, chunks) == list \o chunks

\* Lines 399-400: no documents.
chunk_documents_empty ==
    /\ pc = "called"
    /\ dispatch = "empty"
    /\ result' = <<>>
    /\ pc' = "returned"
    /\ UNCHANGED <<batch, cpu_count, doc_idx, calls, yielded, all_chunks, origin>>
    /\ UNCHANGED cache_vars
    /\ UNCHANGED unit_vars

\* Lines 402-406: one document; the calling thread classifies it and calls
\* chunk_text.
single_call ==
    /\ pc = "called"
    /\ dispatch = "single"
    /\ IF reading_raises(batch.documents[1])
       THEN pc' = "raised" /\ UNCHANGED calls
       ELSE /\ calls' = <<document_call(batch.documents[1], "called")>>
            /\ pc' = "single_call"
    /\ UNCHANGED <<batch, cpu_count, doc_idx, yielded, all_chunks, origin, result>>
    /\ UNCHANGED cache_vars
    /\ UNCHANGED unit_vars

\* Lines 406-407: what chunk_text returned is returned; what it raised
\* reaches the caller.
single_return ==
    /\ pc = "single_call"
    /\ is_done(calls[1])
    /\ IF calls[1].pc = "raised"
       THEN pc' = "raised" /\ UNCHANGED <<result, origin>>
       ELSE /\ pc' = "returned"
            /\ result' = calls[1].chunks
            /\ origin' = [k \in 1..Len(calls[1].chunks) |-> 1]
    /\ UNCHANGED <<batch, cpu_count, doc_idx, calls, yielded, all_chunks>>
    /\ UNCHANGED cache_vars
    /\ UNCHANGED unit_vars

\* Lines 410-413: the pool of min(len(documents), cpu_count()) workers.
open_executor ==
    /\ pc = "called"
    /\ dispatch = "parallel"
    /\ \E n \in 1..MaxCpus : cpu_count' = n
    /\ pc' = "submit"
    /\ UNCHANGED <<batch, doc_idx, calls, yielded, all_chunks, origin, result>>
    /\ UNCHANGED cache_vars
    /\ UNCHANGED unit_vars

num_workers ==
    IF Len(batch.documents) < cpu_count THEN Len(batch.documents)
    ELSE cpu_count

\* Lines 415-420: the next document is classified by the calling thread and
\* its chunk_text call is submitted; after the last one the thread goes on
\* to as_completed.  An exception leaves the with block.
submit ==
    /\ pc = "submit"
    /\ doc_idx < Len(batch.documents)
    /\ IF reading_raises(batch.documents[doc_idx + 1])
       THEN /\ pc' = "unwind"
            /\ UNCHANGED <<doc_idx, calls>>
       ELSE /\ calls' = Append(calls,
                               document_call(batch.documents[doc_idx + 1],
                                             "pending"))
            /\ doc_idx' = doc_idx + 1
            /\ pc' = IF doc_idx + 1 = Len(batch.documents)
                     THEN "collect" ELSE "submit"
    /\ UNCHANGED <<batch, cpu_count, yielded, all_chunks, origin, result>>
    /\ UNCHANGED cache_vars
    /\ UNCHANGED unit_vars

\* A free worker thread takes the oldest work item of the queue.
worker_start(i) ==
    /\ calls[i].pc = "pending"
    /\ \A j \in 1..(i - 1) : calls[j].pc # "pending"
    /\ Cardinality({j \in 1..Len(calls) : is_running(calls[j])}) < num_workers
    /\ calls' = [calls EXCEPT ![i].pc = "called"]
    /\ UNCHANGED batch_vars
    /\ UNCHANGED cache_vars
    /\ UNCHANGED unit_vars

\* Lines 423-429: as_completed yields a completed future; its chunks extend
\* all_chunks, its exception is printed and dropped.
collect(i) ==
    /\ pc = "collect"
    /\ i \notin yielded
    /\ is_done(calls[i])
    /\ yielded' = yielded \cup {i}
    /\ IF calls[i].pc = "returned"
       THEN /\ all_chunks' = extend(all_chunks, calls[i].chunks)
            /\ origin' = origin \o [k \in 1..Len(calls[i].chunks) |-> i]
       ELSE UNCHANGED <<all_chunks, origin>>
    /\ UNCHANGED <<batch, cpu_count, pc, doc_idx, calls, result>>
    /\ UNCHANGED cache_vars
    /\ UNCHANGED unit_vars

\* Line 431: every future was yielded; the with block is left and
\* all_chunks returned.
return_all_chunks ==
    /\ pc = "collect"
    /\ yielded = 1..Len(calls)
    /\ result' = all_chunks
    /\ pc' = "returned"
    /\ UNCHANGED <<batch, cpu_count, doc_idx, calls, yielded, all_chunks, origin>>
    /\ UNCHANGED cache_vars
    /\ UNCHANGED unit_vars

\* The exception of the submit loop leaves the with block: the executor
\* waits for the futures submitted so far, then the exception reaches the
\* caller.
unwind ==
    /\ pc = "unwind"
    /\ \A j \in 1..Len(calls) : is_done(calls[j])
    /\ pc' = "raised"
    /\ UNCHANGED <<batch, cpu_count, doc_idx, calls, yielded, all_chunks, origin, result>>
    /\ UNCHANGED cache_vars
    /\ UNCHANGED unit_vars

\* Lines 433-437: the sequential loop classifies the next document and
\* calls chunk_text.
sequential_call ==
    /\ pc \in {"called", "loop"}
    /\ dispatch = "sequential"
    /\ doc_idx < Len(batch.documents)
    /\ IF reading_raises(batch.documents[doc_idx + 1])
       THEN pc' = "raised" /\ UNCHANGED calls
       ELSE /\ calls' = Append(calls,
                               document_call(batch.documents[doc_idx + 1],
                                             "called"))
            /\ pc' = "sequential_call"
    /\ UNCHANGED <<batch, cpu_count, doc_idx, yielded, all_chunks, origin, result>>
    /\ UNCHANGED cache_vars
    /\ UNCHANGED unit_vars

\* Lines 437-439: the chunks chunk_text returned extend all_chunks; what it
\* raised reaches the caller.
sequential_extend ==
    /\ pc = "sequential_call"
    /\ is_done(calls[doc_idx + 1])
    /\ IF calls[doc_idx + 1].pc = "raised"
       THEN /\ pc' = "raised"
            /\ UNCHANGED <<doc_idx, all_chunks, origin>>
       ELSE /\ all_chunks' = extend(all_chunks, calls[doc_idx + 1].chunks)
            /\ origin' = origin \o [k \in 1..Len(calls[doc_idx + 1].chunks) |->
                                       doc_idx + 1]
            /\ doc_idx' = doc_idx + 1
            /\ pc' = "loop"
    /\ UNCHANGED <<batch, cpu_count, calls, yielded, result>>
    /\ UNCHANGED cache_vars
    /\ UNCHANGED unit_vars

\* Line 440: the sequential loop is over.
sequential_return ==
    /\ pc = "loop"
    /\ doc_idx = Len(batch.documents)
    /\ result' = all_chunks
    /\ pc' = "returned"
    /\ UNCHANGED <<batch, cpu_count, doc_idx, calls, yielded, all_chunks, origin>>
    /\ UNCHANGED cache_vars
    /\ UNCHANGED unit_vars

Next ==
    \/ chunk_documents_empty
    \/ single_call
    \/ single_return
    \/ open_executor
    \/ submit
    \/ \E i \in 1..Len(calls) : worker_start(i)
    \/ \E i \in 1..Len(calls) : chunk_text_prepare(i)
    \/ \E i \in 1..Len(calls) : chunk_text_single(i)
    \/ \E i \in 1..Len(calls) : chunk_text_split(i)
    \/ \E i \in 1..Len(calls) : chunk_text_small2big(i)
    \/ \E i \in 1..Len(calls) : chunk_text_direct(i)
    \/ \E i \in 1..Len(calls) : chunk_text_enhance(i)
    \/ \E i \in 1..Len(calls) : collect(i)
    \/ return_all_chunks
    \/ unwind
    \/ sequential_call
    \/ sequential_extend
    \/ sequential_return

Spec == Init /\ [][Next]_vars

(***************************************************************************)
(* detect_document_type and get_chunking_config on their own.  A filename  *)
(* is made of two parts joined by "_" (the first the earlier one in the    *)
(* list of parts), with the extension ".pdf"; the parts are the substrings *)
(* the rules look for, a part in upper case and parts no rule knows.       *)
(***************************************************************************)
FilenameParts ==
    << <<"8", "0", "0", "-", "5", "3">>,
       <<"c", "a", "t", "a", "l", "o", "g">>,
       <<"8", "0", "0", "-", "5", "3", "a">>,
       <<"a", "s", "s", "e", "s", "s", "m", "e", "n", "t">>,
       <<"8", "0", "0", "-", "3", "7">>,
       <<"r", "m", "f">>,
       <<"c", "s", "f">>,
       <<"c", "y", "b", "e", "r", "s", "e", "c", "u", "r", "i", "t", "y", " ", "f",
             "r", "a", "m", "e", "w", "o", "r", "k">>,
       <<"8", "0", "0", "-", "1", "7", "1">>,
       <<"f", "e", "d", "r", "a", "m", "p">>,
       <<"c", "m", "m", "c">>,
       <<"s", "r", "g">>,
       <<"d", "o", "d">>,
       <<"s", "e", "c", "u", "r", "i", "t", "y", "_", "p", "a", "t", "t", "e", "r",
             "n">>,
       <<"p", "o", "s", "i", "t", "i", "o", "n", "i", "n", "g">>,
       <<"z", "o", "n", "e">>,
       <<"g", "r", "o", "u", "p", "i", "n", "g">>,
       <<"s", "e", "g", "m", "e", "n", "t", "a", "t", "i", "o", "n">>,
       <<"q", "u", "e", "r", "y", "_", "p", "a", "t", "t", "e", "r", "n">>,
       <<"g", "r", "e", "e", "t", "i", "n", "g">>,
       <<"n", "o", "t", "e", "s">>,
       <<"F", "e", "d", "R", "A", "M", "P">>,
       <<"N", "I", "S", "T">> >>

Filenames ==
    {<<>>} \cup
    {FilenameParts[ab[1]] \o <<"_">> \o FilenameParts[ab[2]]
        \o <<".", "p", "d", "f">> :
        ab \in {p \in (1..Len(FilenameParts)) \X (1..Len(FilenameParts)) :
                   p[1] <= p[2]}}

\* The side metadata: with or without a file_type of xml, and with no
\* document_type, each tag of the table or a type the table does not list.
SideMetadatas ==
    {(IF file_type = NoneTag THEN <<>> ELSE [file_type |-> file_type]) @@
     (IF document_type = NoneTag THEN <<>>
      ELSE [document_type |-> document_type]) :
        file_type \in {NoneTag, "xml"},
        document_type \in {NoneTag, "unknown"} \cup DOMAIN CHUNKING_CONFIG}

\* The tags get_chunking_config is asked for on its own.
TagStrings == DOMAIN CHUNKING_CONFIG \cup {"unlisted", "", "DEFAULT", "cnssi_1253"}

\* Either detect_document_type(filename, metadata) is called and the
\* config of its tag looked up, or get_chunking_config(document_type) is
\* called on a tag string.  table is the module's CHUNKING_CONFIG.
ClassifyInit ==
    /\ \/ \E filename \in Filenames, metadata \in SideMetadatas :
              classifier = [pc |-> "called", entry |-> "detect_document_type",
                            filename |-> filename, metadata |-> metadata,
                            document_type |-> NoneTag, config |-> <<>>,
                            table |-> CHUNKING_CONFIG]
       \/ \E document_type \in TagStrings :
              classifier = [pc |-> "lookup", entry |-> "get_chunking_config",
                            filename |-> <<>>, metadata |-> <<>>,
                            document_type |-> document_type, config |-> <<>>,
                            table |-> CHUNKING_CONFIG]
    /\ splitter = [pc |-> "idle"]
    /\ enhancer = [pc |-> "idle"]
    /\ labeller = [pc |-> "idle"]
    /\ token_utils = [pc |-> "idle"]
    /\ memory = [pc |-> "idle"]
    /\ calls = <<>>
    /\ caches_empty
    /\ batch_idle

\* Lines 142-191: detect_document_type(filename, metadata).
detect_document_type_call ==
    /\ classifier.pc = "called"
    /\ classifier' =
           IF detect_raises(classifier.filename)
           THEN [classifier EXCEPT !.pc = "raised"]
           ELSE [classifier EXCEPT
                    !.document_type =
                        detect_document_type(classifier.filename,
                                             classifier.metadata),
                    !.pc = "lookup"]
    /\ UNCHANGED <<splitter, enhancer, labeller, token_utils, memory>>
    /\ UNCHANGED chunker_vars

\* Lines 194-196: get_chunking_config(document_type); the table is read.
get_chunking_config_call ==
    /\ classifier.pc = "lookup"
    /\ classifier' =
           [classifier EXCEPT
               !.config = get_chunking_config(classifier.document_type),
               !.pc = "returned"]
    /\ UNCHANGED <<splitter, enhancer, labeller, token_utils, memory>>
    /\ UNCHANGED chunker_vars

ClassifyNext ==
    \/ detect_document_type_call
    \/ get_chunking_config_call

SpecClassify == ClassifyInit /\ [][ClassifyNext]_vars


(***************************************************************************)
(* split_text on a splitter of its own: RecursiveCharacterTextSplitter(    *)
(* chunk_size, chunk_overlap, length_function = token counter) for every   *)
(* chunk size up to MaxChunkSize, every smaller overlap and every text of  *)
(* up to MaxTextLen characters over two letters, the space and the         *)
(* newline.                                                                *)
(***************************************************************************)
MaxTextLen == 5

MaxChunkSize == 3

ShortTexts ==
    UNION {[1..n -> {"a", "b", " ", "\n"}] : n \in 0..MaxTextLen}

SplitInit ==
    /\ \E text \in ShortTexts, chunk_size \in 1..MaxChunkSize :
           \E chunk_overlap \in 0..(chunk_size - 1) :
               splitter = [pc |-> "called", text |-> text,
                           chunk_size |-> chunk_size,
                           chunk_overlap |-> chunk_overlap, chunks |-> <<>>]
    /\ classifier = [pc |-> "idle"]
    /\ enhancer = [pc |-> "idle"]
    /\ labeller = [pc |-> "idle"]
    /\ token_utils = [pc |-> "idle"]
    /\ memory = [pc |-> "idle"]
    /\ calls = <<>>
    /\ caches_empty
    /\ batch_idle

\* Lines 320-328: text_splitter.split_text(text).
split_text_call ==
    /\ splitter.pc = "called"
    /\ splitter' = [splitter EXCEPT
                       !.chunks = split_text(splitter.text, splitter.chunk_size,
                                             splitter.chunk_overlap),
                       !.pc = "returned"]
    /\ UNCHANGED <<classifier, enhancer, labeller, token_utils, memory>>
    /\ UNCHANGED chunker_vars

SplitNext == split_text_call

SpecSplit == SplitInit /\ [][SplitNext]_vars

(***************************************************************************)
(* The enhancer on a chunk of its own: generate_hypothetical_questions is  *)
(* called on the chunk's text and metadata, or enhance_chunk_metadata is   *)
(* called on the chunk, then a second time with the same arguments, then   *)
(* on the chunk it returned.  chunk is the caller's object, given its      *)
(* value when the call was made.                                           *)
(***************************************************************************)
ChunkTexts ==
    { <<>>,
      \* no question of any family but the fixed ones
      <<"p", "l", "a", "i", "n", " ", "t", "e", "x", "t">>,
      \* a repeated existing question among the first three
      <<"a", "?", " ", "a", "?", " ", "b", "?", " ", "c", "?">>,
      \* four distinct existing questions
      <<"a", "?", " ", "b", "?", " ", "c", "?", " ", "d", "?">>,
      \* a capitalised phrase twice, and a requirement word
      <<"A", "c", "c", "e", "s", "s", " ", "C", "o", "n", "t", "r", "o",
        "l", " ", "m", "u", "s", "t", " ", "u", "s", "e", " ", "A", "c",
        "c", "e", "s", "s", " ", "C", "o", "n", "t", "r", "o", "l">>,
      \* pattern terms, a baseline and keywords
      <<"t", "h", "e", " ", "d", "m", "z", " ", "f", "i", "r", "e", "w",
        "a", "l", "l", " ", "s", "h", "a", "l", "l", " ", "d", "e", "p",
        "l", "o", "y", " ", "a", " ", "b", "a", "s", "e", "l", "i", "n",
        "e">>,
      \* an acronym and an assessment word
      <<"N", "I", "S", "T", " ", "a", "s", "s", "e", "s", "s">> }

ChunkMetadatas ==
    { <<>>,
      [control_id |-> <<"A", "C", "-", "3">>,
       control_name |-> <<"A", "c", "c", "e", "s", "s", " ", "E", "n", "f",
                          "o", "r", "c", "e", "m", "e", "n", "t">>,
       family |-> <<"A", "C">>],
      [control_id |-> <<"A", "C", "-", "3">>,
       enhancement_number |-> <<"1">>,
       source |-> <<"A", "s", "s", "e", "s", "s", "m", "e", "n", "t", ".",
                    "p", "d", "f">>],
      [family |-> <<"A", "C">>,
       chunk_index |-> 0,
       is_small_chunk |-> FALSE],
      [task_id |-> <<"P", "-", "1">>,
       step |-> <<"P", "r", "e", "p", "a", "r", "e">>],
      [function |-> <<"G", "o", "v", "e", "r", "n">>,
       category |-> <<"C", "y", "b", "e", "r", "s", "e", "c", "u", "r", "i",
                      "t", "y", " ", "F", "r", "a", "m", "e", "w", "o", "r",
                      "k">>],
      [section_heading |-> <<"S", "c", "o", "p", "e">>,
       token_count |-> 2],
      [control_id |-> <<"A", "C", "-", "3">>,
       source |-> NoneValue] }

EnhanceInit ==
    /\ \E text \in ChunkTexts, metadata \in ChunkMetadatas,
          document_type \in Tags :
           LET chunk == [text |-> text, metadata |-> metadata]
               call(entry, enable_questions) ==
                   [pc |-> "called", entry |-> entry, chunk |-> chunk,
                    given |-> chunk, document_type |-> document_type,
                    enable_questions |-> enable_questions,
                    questions |-> <<>>, once |-> NoneValue,
                    again |-> NoneValue, twice |-> NoneValue]
           IN  \/ enhancer = call("generate_hypothetical_questions", TRUE)
               \/ \E enable_questions \in BOOLEAN :
                      enhancer = call("enhance_chunk_metadata", enable_questions)
    /\ classifier = [pc |-> "idle"]
    /\ splitter = [pc |-> "idle"]
    /\ labeller = [pc |-> "idle"]
    /\ token_utils = [pc |-> "idle"]
    /\ memory = [pc |-> "idle"]
    /\ calls = <<>>
    /\ caches_empty
    /\ batch_idle

\* Lines 12-49: generate_hypothetical_questions(text, metadata,
\* document_type); line 72 raises on a source that is no string.
generate_hypothetical_questions_call ==
    /\ enhancer.pc = "called"
    /\ enhancer.entry = "generate_hypothetical_questions"
    /\ enhancer' =
           IF enhance_raises(enhancer.chunk, enhancer.document_type)
           THEN [enhancer EXCEPT !.pc = "raised"]
           ELSE [enhancer EXCEPT
                    !.questions =
                        generate_hypothetical_questions(
                            enhancer.chunk.text, enhancer.chunk.metadata,
                            enhancer.document_type),
                    !.pc = "returned"]
    /\ UNCHANGED <<classifier, splitter, labeller, token_utils, memory>>
    /\ UNCHANGED chunker_vars

\* Lines 231-258: enhance_chunk_metadata(chunk, document_type,
\* enable_questions).  The questions are written to a copy of the metadata
\* (248) and the copy is put in a new chunk (253), so the caller's chunk
\* keeps its value.
enhance_chunk_metadata_call ==
    /\ enhancer.pc = "called"
    /\ enhancer.entry = "enhance_chunk_metadata"
    /\ enhancer' =
           IF /\ enhancer.enable_questions
              /\ enhance_raises(enhancer.chunk, enhancer.document_type)
           THEN [enhancer EXCEPT !.pc = "raised"]
           ELSE [enhancer EXCEPT
                    !.once =
                        enhance_chunk_metadata(enhancer.chunk,
                                               enhancer.document_type,
                                               enhancer.enable_questions),
                    !.pc = "enhanced"]
    /\ UNCHANGED <<classifier, splitter, labeller, token_utils, memory>>
    /\ UNCHANGED chunker_vars

\* A second call of enhance_chunk_metadata with the same arguments.
enhance_chunk_metadata_repeat ==
    /\ enhancer.pc = "enhanced"
    /\ enhancer' =
           [enhancer EXCEPT
               !.again =
                   enhance_chunk_metadata(enhancer.chunk,
                                          enhancer.document_type,
                                          enhancer.enable_questions),
               !.pc = "repeated"]
    /\ UNCHANGED <<classifier, splitter, labeller, token_utils, memory>>
    /\ UNCHANGED chunker_vars

\* A call of enhance_chunk_metadata on the chunk the first call returned.
enhance_chunk_metadata_enhanced ==
    /\ enhancer.pc = "repeated"
    /\ enhancer' =
           IF /\ enhancer.enable_questions
              /\ enhance_raises(enhancer.once, enhancer.document_type)
           THEN [enhancer EXCEPT !.pc = "raised"]
           ELSE [enhancer EXCEPT
                    !.twice =
                        enhance_chunk_metadata(enhancer.once,
                                               enhancer.document_type,
                                               enhancer.enable_questions),
                    !.pc = "returned"]
    /\ UNCHANGED <<classifier, splitter, labeller, token_utils, memory>>
    /\ UNCHANGED chunker_vars

EnhanceNext ==
    \/ generate_hypothetical_questions_call
    \/ enhance_chunk_metadata_call
    \/ enhance_chunk_metadata_repeat
    \/ enhance_chunk_metadata_enhanced

SpecEnhance == EnhanceInit /\ [][EnhanceNext]_vars

(***************************************************************************)
(* _build_context_prefix on its own, called on a metadata dict that has a  *)
(* few of the label fields, or all or all but one of them, or all of them  *)
(* with one holding '' or None, and on every tag of the table and a tag    *)
(* the table does not list.  page is given by its decimal digits.          *)
(***************************************************************************)
\* The metadata keys _build_context_prefix reads, each with a value.
LabelValues ==
    [section_heading |-> <<"S", "c", "o", "p", "e">>,
     control_id |-> <<"A", "C", "-", "3">>,
     control_name |-> <<"A", "c", "c", "e", "s", "s">>,
     family |-> <<"A", "C">>,
     enhancement_number |-> <<"1">>,
     task_id |-> <<"P", "-", "1">>,
     step |-> <<"P", "r", "e", "p", "a", "r", "e">>,
     function |-> <<"G", "o", "v", "e", "r", "n">>,
     category |-> <<"N", "I", "S", "T">>,
     impact_level |-> <<"H", "i", "g", "h">>,
     baseline_level |-> <<"L", "o", "w">>,
     page |-> <<"1", "2">>,
     sheet |-> <<"D", "a", "t", "a">>]

LabelKeySets ==
    {keys \in SUBSET (DOMAIN LabelValues) :
        Cardinality(keys) <= 3 \/ Cardinality(keys) >= 12}

LabelMetadatas ==
    {[key \in keys |-> LabelValues[key]] : keys \in LabelKeySets}
    \cup {[LabelValues EXCEPT ![key] = empty] :
              key \in DOMAIN LabelValues, empty \in {<<>>, NoneValue}}
    \cup {[key \in keys \cup {"source"} |->
              IF key = "source" THEN <<"a", ".", "p", "d", "f">>
              ELSE LabelValues[key]] :
              keys \in {k \in LabelKeySets : Cardinality(k) <= 1}}

PrefixInit ==
    /\ \E metadata \in LabelMetadatas,
          document_type \in DOMAIN CHUNKING_CONFIG \cup {"unlisted"} :
           labeller = [pc |-> "called", metadata |-> metadata,
                       document_type |-> document_type, prefix |-> <<>>]
    /\ classifier = [pc |-> "idle"]
    /\ splitter = [pc |-> "idle"]
    /\ enhancer = [pc |-> "idle"]
    /\ token_utils = [pc |-> "idle"]
    /\ memory = [pc |-> "idle"]
    /\ calls = <<>>
    /\ caches_empty
    /\ batch_idle

\* Lines 224-265: _build_context_prefix(metadata, document_type).
build_context_prefix_call ==
    /\ labeller.pc = "called"
    /\ labeller' =
           [labeller EXCEPT
               !.prefix = build_context_prefix(labeller.metadata,
                                               labeller.document_type),
               !.pc = "returned"]
    /\ UNCHANGED <<classifier, splitter, enhancer, token_utils, memory>>
    /\ UNCHANGED chunker_vars

PrefixNext == build_context_prefix_call

SpecPrefix == PrefixInit /\ [][PrefixNext]_vars

(***************************************************************************)
(* token_utils.py on its own: calculate_adaptive_overlap.                  *)
(***************************************************************************)
\* The small budgets calculate_adaptive_overlap is called with.
MaxBudget == 120

OverlapInit ==
    /\ \E chunk_size_tokens \in 1..MaxBudget :
           token_utils = [pc |-> "called",
                          entry |-> "calculate_adaptive_overlap",
                          chunk_size_tokens |-> chunk_size_tokens,
                          overlap |-> 0]
    /\ classifier = [pc |-> "idle"]
    /\ splitter = [pc |-> "idle"]
    /\ enhancer = [pc |-> "idle"]
    /\ labeller = [pc |-> "idle"]
    /\ memory = [pc |-> "idle"]
    /\ calls = <<>>
    /\ caches_empty
    /\ batch_idle

\* token_utils.py lines 71-90: calculate_adaptive_overlap(chunk_size_tokens).
calculate_adaptive_overlap_call ==
    /\ token_utils.pc = "called"
    /\ token_utils.entry = "calculate_adaptive_overlap"
    /\ token_utils' =
           [token_utils EXCEPT
               !.overlap = calculate_adaptive_overlap(
                               token_utils.chunk_size_tokens),
               !.pc = "returned"]
    /\ UNCHANGED <<classifier, splitter, enhancer, labeller, memory>>
    /\ UNCHANGED chunker_vars

OverlapNext == calculate_adaptive_overlap_call

SpecOverlap == OverlapInit /\ [][OverlapNext]_vars

(***************************************************************************)
(* token_utils.py on its own: the tokenizer cache under threads.           *)
(*                                                                         *)
(* Each thread calls get_tokenizer, count_tokens or create_token_counter;  *)
(* all three begin with get_tokenizer (lines 45 and 61).  get_tokenizer    *)
(* takes no lock, so a thread can be preempted between its statements:     *)
(*     line 29   if encoding_name not in _tokenizer_cache:                 *)
(*     line 30       ... = tiktoken.get_encoding(encoding_name)   (load)   *)
(*     line 30       _tokenizer_cache[encoding_name] = ...        (store)  *)
(*     line 31   return _tokenizer_cache[encoding_name]                    *)
(* token_utils.loads counts, per encoding, the executions of the load of   *)
(* line 30; the n-th load of an encoding yields instance n.                *)
(***************************************************************************)
MaxThreads == 2

MaxCallsPerThread == 2

Threads == 1..MaxThreads

Encodings == {"cl100k_base", "p50k_base"}

TokenFunctions == {"get_tokenizer", "count_tokens", "create_token_counter"}

TokenizerInit ==
    /\ token_utils =
           [pc |-> "running",
            entry |-> "get_tokenizer",
            tokenizer_cache |-> [e \in {} |-> 0],
            loads |-> [e \in Encodings |-> 0],
            threads |-> [t \in Threads |->
                            [pc |-> "idle", fn |-> "", encoding_name |-> "",
                             loaded |-> 0, tokenizer |-> 0, made |-> 0,
                             hit |-> FALSE]]]
    /\ classifier = [pc |-> "idle"]
    /\ splitter = [pc |-> "idle"]
    /\ enhancer = [pc |-> "idle"]
    /\ labeller = [pc |-> "idle"]
    /\ memory = [pc |-> "idle"]
    /\ calls = <<>>
    /\ caches_empty
    /\ batch_idle

tokenizer_running == token_utils.pc = "running"

\* A thread enters one of the three functions (lines 19, 34, 49); each
\* reaches line 29 of get_tokenizer before anything else.
token_function_call(t) ==
    /\ tokenizer_running
    /\ token_utils.threads[t].pc = "idle"
    /\ token_utils.threads[t].made < MaxCallsPerThread
    /\ \E fn \in TokenFunctions, encoding_name \in Encodings :
           token_utils' =
               [token_utils EXCEPT
                   !.threads[t] =
                       [@ EXCEPT !.pc = "line 29", !.fn = fn,
                                 !.encoding_name = encoding_name,
                                 !.loaded = 0, !.tokenizer = 0,
                                 !.hit = FALSE]]
    /\ UNCHANGED <<classifier, splitter, enhancer, labeller, memory>>
    /\ UNCHANGED chunker_vars

\* Line 29: the membership test.
get_tokenizer_check(t) ==
    /\ tokenizer_running
    /\ token_utils.threads[t].pc = "line 29"
    /\ LET encoding_name == token_utils.threads[t].encoding_name
           cached == encoding_name \in DOMAIN token_utils.tokenizer_cache
       IN  token_utils' =
               [token_utils EXCEPT
                   !.threads[t] =
                       [@ EXCEPT !.hit = cached,
                                 !.pc = IF cached THEN "line 31"
                                        ELSE "line 30 load"]]
    /\ UNCHANGED <<classifier, splitter, enhancer, labeller, memory>>
    /\ UNCHANGED chunker_vars

\* Line 30, right-hand side: tiktoken.get_encoding(encoding_name).
get_tokenizer_load(t) ==
    /\ tokenizer_running
    /\ token_utils.threads[t].pc = "line 30 load"
    /\ LET encoding_name == token_utils.threads[t].encoding_name
           instance == token_utils.loads[encoding_name] + 1
       IN  token_utils' =
               [token_utils EXCEPT
                   !.loads[encoding_name] = instance,
                   !.threads[t] =
                       [@ EXCEPT !.loaded = instance,
                                 !.pc = "line 30 store"]]
    /\ UNCHANGED <<classifier, splitter, enhancer, labeller, memory>>
    /\ UNCHANGED chunker_vars

\* Line 30, the assignment to _tokenizer_cache[encoding_name].
get_tokenizer_store(t) ==
    /\ tokenizer_running
    /\ token_utils.threads[t].pc = "line 30 store"
    /\ LET encoding_name == token_utils.threads[t].encoding_name
       IN  token_utils' =
               [token_utils EXCEPT
                   !.tokenizer_cache =
                       Update(@, [e \in {encoding_name} |->
                                     token_utils.threads[t].loaded]),
                   !.threads[t] = [@ EXCEPT !.pc = "line 31"]]
    /\ UNCHANGED <<classifier, splitter, enhancer, labeller, memory>>
    /\ UNCHANGED chunker_vars

\* Line 31: return _tokenizer_cache[encoding_name]; the caller then encodes
\* (line 46) or builds the closure (lines 63-68) with that instance.
get_tokenizer_return(t) ==
    /\ tokenizer_running
    /\ token_utils.threads[t].pc = "line 31"
    /\ LET encoding_name == token_utils.threads[t].encoding_name
       IN  token_utils' =
               [token_utils EXCEPT
                   !.threads[t] =
                       [@ EXCEPT
                           !.tokenizer =
                               token_utils.tokenizer_cache[encoding_name],
                           !.made = @ + 1,
                           !.pc = "idle"]]
    /\ UNCHANGED <<classifier, splitter, enhancer, labeller, memory>>
    /\ UNCHANGED chunker_vars

TokenizerNext ==
    \E t \in Threads :
        \/ token_function_call(t)
        \/ get_tokenizer_check(t)
        \/ get_tokenizer_load(t)
        \/ get_tokenizer_store(t)
        \/ get_tokenizer_return(t)

SpecTokenizer == TokenizerInit /\ [][TokenizerNext]_vars

(***************************************************************************)
(* chunk_text and chunk_documents on dict objects.                         *)
(*                                                                         *)
(* A Python dict is an object: two names can refer to the same dict, and   *)
(* an assignment d[key] = value changes it for both.  memory.objects is    *)
(* the sequence of the dicts that exist, an object being named by its      *)
(* position; a document holds the position of its metadata, a chunk the    *)
(* position of its own.  Every statement of chunk_text and of              *)
(* enhance_chunk_metadata that creates a dict or assigns into one acts on  *)
(* memory.objects.  The pipelines of the documents of a batch step in any  *)
(* order, which covers the single, the sequential and the parallel branch  *)
(* of chunk_documents; the documents are the well-formed ones of the       *)
(* catalogue, so no pipeline raises.  A str is immutable.                  *)
(***************************************************************************)
\* d.copy() without the copy, the new name referring to d itself: the
\* fault C26 excludes.
dict_copy_aliasing(objects, id) == [objects |-> objects, id |-> id]

\* d.copy(): a new dict with the keys and values of d.
dict_copy(objects, id) ==
    [objects |-> Append(objects, objects[id]), id |-> Len(objects) + 1]

WellFormedDocs ==
    {doc \in DocCatalog : ~reading_raises(doc) /\ IsStr(doc.text)}

\* The document is emitted as one chunk (line 299).
on_single_path(doc) ==
    suppress_split(doc.text,
                   detect_document_type(Get(doc.metadata, "source", <<>>),
                                        doc.metadata))

\* The batches: every document alone, and a document of the single-chunk
\* path followed by any other document.
WellFormedLists ==
    {<<doc>> : doc \in WellFormedDocs}
    \cup {pair \in WellFormedDocs \X WellFormedDocs :
              on_single_path(pair[1]) /\ pair[2] # pair[1]}

\* chunker.py lines 404-405, 417-419 and 435-437: chunk_text is called with
\* the text and the metadata object of the document and the detected tag.
MemoryInit ==
    /\ \E documents \in WellFormedLists,
          enable_small2big \in BOOLEAN, enable_questions \in BOOLEAN :
           memory =
               [pc |-> "running",
                objects |-> [k \in 1..Len(documents) |-> documents[k].metadata],
                documents |-> [k \in 1..Len(documents) |->
                                  [text |-> documents[k].text,
                                   metadata |-> k]],
                before |-> documents,
                enable_small2big |-> enable_small2big,
                enable_questions |-> enable_questions,
                frames |-> [k \in 1..Len(documents) |->
                               [pc |-> "called",
                                document_type |->
                                    detect_document_type(
                                        Get(documents[k].metadata, "source",
                                            <<>>),
                                        documents[k].metadata),
                                context_prefix |-> <<>>,
                                parent_chunks |-> <<>>,
                                base |-> 0,
                                chunks |-> <<>>,
                                enhanced |-> 0]]]
    /\ classifier = [pc |-> "idle"]
    /\ splitter = [pc |-> "idle"]
    /\ enhancer = [pc |-> "idle"]
    /\ labeller = [pc |-> "idle"]
    /\ token_utils = [pc |-> "idle"]
    /\ calls = <<>>
    /\ caches_empty
    /\ batch_idle

memory_running == memory.pc = "running"

\* Lines 275-300 and 318-330: the prefix, the choice of the path, on the
\* split path the parent spans, and metadata.copy().
copy_metadata(i) ==
    /\ memory_running
    /\ memory.frames[i].pc = "called"
    /\ LET text == memory.documents[i].text
           metadata == memory.documents[i].metadata
           document_type == memory.frames[i].document_type
           single == suppress_split(text, document_type)
           copied == dict_copy(memory.objects, metadata)
       IN  memory' =
               [memory EXCEPT
                   !.objects = copied.objects,
                   !.frames[i] =
                       [@ EXCEPT
                           !.context_prefix =
                               build_context_prefix(memory.objects[metadata],
                                                    document_type),
                           !.parent_chunks =
                               IF single THEN <<>>
                               ELSE parent_chunks_of(text, document_type),
                           !.base = copied.id,
                           !.pc = IF single THEN "single" ELSE "base"]]
    /\ UNCHANGED <<classifier, splitter, enhancer, labeller, token_utils>>
    /\ UNCHANGED chunker_vars

\* Lines 301-311: the assignments into chunk_metadata, which is the
\* metadata of the one chunk.
assign_chunk_metadata(i) ==
    /\ memory_running
    /\ memory.frames[i].pc = "single"
    /\ LET frame == memory.frames[i]
           text == memory.documents[i].text
           chunk == single_chunk(text, memory.objects[frame.base],
                                 frame.document_type, frame.context_prefix,
                                 count_tokens(text))[1]
       IN  memory' =
               [memory EXCEPT
                   !.objects[frame.base] = chunk.metadata,
                   !.frames[i] =
                       [@ EXCEPT
                           !.chunks = <<[text |-> chunk.text,
                                         metadata |-> frame.base]>>,
                           !.pc = "enhance"]]
    /\ UNCHANGED <<classifier, splitter, enhancer, labeller, token_utils>>
    /\ UNCHANGED chunker_vars

\* Lines 331-333: the assignments into chunk_metadata_base.
assign_metadata_base(i) ==
    /\ memory_running
    /\ memory.frames[i].pc = "base"
    /\ LET frame == memory.frames[i]
       IN  memory' =
               [memory EXCEPT
                   !.objects[frame.base] =
                       chunk_metadata_base(memory.objects[frame.base],
                                           frame.document_type,
                                           frame.context_prefix),
                   !.frames[i] = [@ EXCEPT !.pc = "emit"]]
    /\ UNCHANGED <<classifier, splitter, enhancer, labeller, token_utils>>
    /\ UNCHANGED chunker_vars

\* Lines 337-387: every chunk gets a dict of its own,
\* {**chunk_metadata_base, ...}.
emit_chunks(i) ==
    /\ memory_running
    /\ memory.frames[i].pc = "emit"
    /\ LET frame == memory.frames[i]
           base == memory.objects[frame.base]
           built ==
               IF hierarchy_applies(frame.parent_chunks, frame.document_type,
                                    memory.enable_small2big)
               THEN small_chunk_list(
                        frame.parent_chunks, 0, <<>>,
                        Get(get_chunking_config(frame.document_type),
                            "small_chunk_size", 256),
                        base, frame.context_prefix)
               ELSE parent_chunk_list(frame.parent_chunks, base,
                                      frame.context_prefix)
       IN  memory' =
               [memory EXCEPT
                   !.objects = @ \o [k \in 1..Len(built) |-> built[k].metadata],
                   !.frames[i] =
                       [@ EXCEPT
                           !.chunks =
                               [k \in 1..Len(built) |->
                                   [text |-> built[k].text,
                                    metadata |-> Len(memory.objects) + k]],
                           !.pc = "enhance"]]
    /\ UNCHANGED <<classifier, splitter, enhancer, labeller, token_utils>>
    /\ UNCHANGED chunker_vars

\* metadata_enhancer.py lines 231-258 on the next chunk of the list
\* (chunker.py lines 308-309 and 389-390): a chunk that gets questions gets
\* them in a copy of its metadata (line 248), a chunk without questions is
\* returned as it is.
enhance_chunk(i) ==
    /\ memory_running
    /\ memory.frames[i].pc = "enhance"
    /\ memory.enable_questions
    /\ memory.frames[i].enhanced < Len(memory.frames[i].chunks)
    /\ LET frame == memory.frames[i]
           k == frame.enhanced + 1
           chunk == [text |-> frame.chunks[k].text,
                     metadata |-> memory.objects[frame.chunks[k].metadata]]
           enhanced == enhance_chunk_metadata(chunk, frame.document_type, TRUE)
           copied == dict_copy(memory.objects, frame.chunks[k].metadata)
       IN  IF enhanced = chunk
           THEN memory' = [memory EXCEPT !.frames[i].enhanced = k]
           ELSE memory' =
                    [memory EXCEPT
                        !.objects = [copied.objects EXCEPT
                                        ![copied.id] = enhanced.metadata],
                        !.frames[i] =
                            [@ EXCEPT !.chunks[k].metadata = copied.id,
                                      !.enhanced = k]]
    /\ UNCHANGED <<classifier, splitter, enhancer, labeller, token_utils>>
    /\ UNCHANGED chunker_vars

\* chunker.py lines 311 and 392: the chunks are returned.
return_chunks(i) ==
    /\ memory_running
    /\ memory.frames[i].pc = "enhance"
    /\ \/ ~memory.enable_questions
       \/ memory.frames[i].enhanced = Len(memory.frames[i].chunks)
    /\ memory' = [memory EXCEPT !.frames[i].pc = "returned"]
    /\ UNCHANGED <<classifier, splitter, enhancer, labeller, token_utils>>
    /\ UNCHANGED chunker_vars

MemoryNext ==
    \E i \in 1..MaxDocs :
        /\ i <= Len(memory.frames)
        /\ \/ copy_metadata(i)
           \/ assign_chunk_metadata(i)
           \/ assign_metadata_base(i)
           \/ emit_chunks(i)
           \/ enhance_chunk(i)
           \/ return_chunks(i)

SpecMemory == MemoryInit /\ [][MemoryNext]_vars

(***************************************************************************)
(* Properties of chunk_text, stated on the calls that returned.            *)
(***************************************************************************)
\* The calls that returned their chunks.
returned_calls == {i \in 1..Len(calls) : calls[i].pc = "returned"}

\* The context prefix chunk_text built for call i.
prefix_of(i) == build_context_prefix(calls[i].metadata, calls[i].document_type)

\* A chunk text with the context prefix and the blank line after it removed.
without_prefix(text, prefix) ==
    IF prefix # <<>> /\ Take(text, Len(prefix) + 2) = prefix \o <<"\n", "\n">>
    THEN SubSeq(text, Len(prefix) + 3, Len(text))
    ELSE text

\* The keys only a small chunk carries.
hierarchy_keys ==
    {"parent_chunk_id", "parent_chunk_index", "small_chunk_index",
     "parent_text", "parent_token_count"}

\* The positions in the chunks of call i of the small chunks of parent p.
small_chunks_under(i, p) ==
    {k \in 1..Len(calls[i].chunks) :
        /\ calls[i].chunks[k].metadata.is_small_chunk
        /\ calls[i].chunks[k].metadata.parent_chunk_index = p}

\* The hierarchy is enabled for the tag of call i and by its caller.
small2big_enabled(i) ==
    /\ Get(get_chunking_config(calls[i].document_type), "use_small2big", FALSE)
    /\ calls[i].enable_small2big

\* C4: the chunk list chunk_text returns has chunk_index 0, 1, ..., n-1 in
\* list order, on every path (single chunk, parent spans emitted directly,
\* small chunks), also when the metadata passed in carries a chunk_index.
C4_ChunkIndexContiguous ==
    \A i \in returned_calls :
        \A k \in 1..Len(calls[i].chunks) :
            calls[i].chunks[k].metadata.chunk_index = k - 1

\* A call that returned three or more small chunks for metadata that came
\* with a chunk_index of its own.
C4_Witness ==
    \E i \in returned_calls :
        /\ "chunk_index" \in DOMAIN calls[i].metadata
        /\ calls[i].metadata.chunk_index = 7
        /\ Len(calls[i].chunks) >= 3
        /\ calls[i].chunks[3].metadata.is_small_chunk

\* C5: the parent_text of every small chunk is the parent span numbered by
\* its parent_chunk_index, without the context prefix (which only the
\* chunk's own text begins with); small chunks of one parent agree on
\* parent_text, parent_token_count and parent_chunk_id.
C5_ParentTextIsParentSpan ==
    \A i \in returned_calls :
        \A k \in 1..Len(calls[i].chunks) :
            LET chunk == calls[i].chunks[k]
                m == chunk.metadata
            IN  m.is_small_chunk =>
                    /\ m.parent_chunk_index \in 0..(Len(calls[i].parent_chunks) - 1)
                    /\ m.parent_text =
                           calls[i].parent_chunks[m.parent_chunk_index + 1]
                    /\ prefix_of(i) # <<>> =>
                           /\ Take(chunk.text, Len(prefix_of(i))) = prefix_of(i)
                           /\ Take(m.parent_text, Len(prefix_of(i))) # prefix_of(i)
                    /\ \A j \in small_chunks_under(i, m.parent_chunk_index) :
                           LET other == calls[i].chunks[j].metadata
                           IN  /\ other.parent_text = m.parent_text
                               /\ other.parent_token_count = m.parent_token_count
                               /\ other.parent_chunk_id = m.parent_chunk_id

\* A call that returned two small chunks of one parent, with a prefix.
C5_Witness ==
    \E i \in returned_calls :
        /\ prefix_of(i) # <<>>
        /\ \E p \in 0..(Len(calls[i].parent_chunks) - 1) :
               Cardinality(small_chunks_under(i, p)) >= 2

\* C6: in a hierarchy output every parent index 0..P-1 has at least one
\* small chunk, the small_chunk_index values under a parent are 0..k-1 in
\* emission order, and parent_chunk_index never decreases along the list.
C6_SmallChunksGroupedByParent ==
    \A i \in returned_calls :
        (calls[i].chunks # <<>> /\ calls[i].chunks[1].metadata.is_small_chunk) =>
            /\ \A p \in 0..(Len(calls[i].parent_chunks) - 1) :
                   /\ small_chunks_under(i, p) # {}
                   /\ \A k \in small_chunks_under(i, p) :
                          calls[i].chunks[k].metadata.small_chunk_index =
                              k - Min(small_chunks_under(i, p))
            /\ \A k \in 1..(Len(calls[i].chunks) - 1) :
                   calls[i].chunks[k].metadata.parent_chunk_index
                       <= calls[i].chunks[k + 1].metadata.parent_chunk_index

\* A hierarchy output with two parents of two small chunks each.
C6_Witness ==
    \E i \in returned_calls :
        /\ Len(calls[i].parent_chunks) = 2
        /\ Cardinality(small_chunks_under(i, 0)) = 2
        /\ Cardinality(small_chunks_under(i, 1)) = 2

\* C7: chunk_text emits small chunks exactly when the tag's config and the
\* caller enable the hierarchy and the parent splitter produced two or more
\* spans; otherwise every parent span (the whole text, when the split is
\* suppressed) is one chunk with is_small_chunk false and none of the
\* hierarchy keys; is_small_chunk is the same on all chunks of a call.  The
\* metadata passed in is that of a source document: it has no hierarchy key
\* of its own.
C7_HierarchyExactlyWhenEnabled ==
    \A i \in returned_calls :
        LET chunks == calls[i].chunks
            small == \E k \in 1..Len(chunks) : chunks[k].metadata.is_small_chunk
        IN  /\ small <=> (small2big_enabled(i) /\ Len(calls[i].parent_chunks) >= 2)
            /\ ~small =>
                   /\ \/ Len(chunks) = Len(calls[i].parent_chunks)
                      \/ calls[i].parent_chunks = <<>> /\ Len(chunks) = 1
                   /\ \A k \in 1..Len(chunks) :
                          /\ chunks[k].metadata.is_small_chunk = FALSE
                          /\ DOMAIN chunks[k].metadata \cap hierarchy_keys = {}
                          /\ calls[i].parent_chunks # <<>> =>
                                 without_prefix(chunks[k].text, prefix_of(i)) =
                                     Strip(calls[i].parent_chunks[k])
            /\ \A j, k \in 1..Len(chunks) :
                   chunks[j].metadata.is_small_chunk =
                       chunks[k].metadata.is_small_chunk

\* The hierarchy is enabled but the text made one parent span only: it is
\* returned as one chunk that is no small chunk.
C7_Witness ==
    \E i \in returned_calls :
        /\ small2big_enabled(i)
        /\ Len(calls[i].parent_chunks) = 1
        /\ Len(calls[i].chunks) = 1
        /\ ~calls[i].chunks[1].metadata.is_small_chunk

\* The parent spans of 300 tokens of a cmmc call with the hierarchy enabled.
parents_of_300(i) ==
    IF calls[i].document_type = "cmmc" /\ small2big_enabled(i)
    THEN {p \in 1..Len(calls[i].parent_chunks) :
             count_tokens(calls[i].parent_chunks[p]) = 300}
    ELSE {}

\* Parent span p of call i came out as two or more small chunks of at most
\* 256 tokens, each with the whole span as parent_text.
resplit(i, p) ==
    /\ Cardinality(small_chunks_under(i, p - 1)) >= 2
    /\ \A k \in small_chunks_under(i, p - 1) :
           /\ calls[i].chunks[k].metadata.token_count <= 256
           /\ calls[i].chunks[k].metadata.parent_text = calls[i].parent_chunks[p]
           /\ count_tokens(calls[i].chunks[k].metadata.parent_text) = 300

\* C8 as stated: under cmmc (parents of 384 tokens, small chunks of 256)
\* with the hierarchy enabled, a text that forms one parent span of 300
\* tokens comes out as two or more small chunks of at most 256 tokens, each
\* with the whole parent as parent_text.
C8_SingleParentResplit ==
    \A i \in returned_calls :
        \A p \in parents_of_300(i) :
            Len(calls[i].parent_chunks) = 1 => resplit(i, p)

\* C8, amended: a parent span of 300 tokens is split again into two or more
\* small chunks of at most 256 tokens, each with the whole parent as
\* parent_text, when the text made two or more parent spans; a text that
\* forms one parent span of 300 tokens is returned as one chunk that is no
\* small chunk.
C8_ParentResplitAmongSeveral ==
    \A i \in returned_calls :
        \A p \in parents_of_300(i) :
            IF Len(calls[i].parent_chunks) >= 2
            THEN resplit(i, p)
            ELSE /\ Len(calls[i].chunks) = 1
                 /\ ~calls[i].chunks[1].metadata.is_small_chunk
                 /\ hierarchy_keys \cap DOMAIN calls[i].chunks[1].metadata = {}

\* A cmmc call whose text made two parent spans of 300 tokens.
C8_Witness ==
    \E i \in returned_calls :
        /\ Len(calls[i].parent_chunks) = 2
        /\ parents_of_300(i) = {1, 2}

\* C9: for every tag and flag combination, a text that is not empty after
\* trimming and has at most as many tokens as the tag's target comes back
\* as exactly one chunk, with chunk_index 0 and is_small_chunk false, whose
\* text without the context prefix is the trimmed input.
C9_FittingTextIsOneChunk ==
    \A i \in returned_calls :
        (/\ Strip(calls[i].text) # <<>>
         /\ count_tokens(calls[i].text) <=
                Get(get_chunking_config(calls[i].document_type),
                    "chunk_size_tokens", 512)) =>
            /\ Len(calls[i].chunks) = 1
            /\ calls[i].chunks[1].metadata.chunk_index = 0
            /\ calls[i].chunks[1].metadata.is_small_chunk = FALSE
            /\ without_prefix(calls[i].chunks[1].text, prefix_of(i)) =
                   Strip(calls[i].text)

\* C10: for every tag and flag combination, chunk_text of the empty text
\* returns the empty list.
C10_EmptyTextNoChunks ==
    \A i \in returned_calls :
        calls[i].text = <<>> => calls[i].chunks = <<>>

(***************************************************************************)
(* Properties of chunk_documents.                                          *)
(***************************************************************************)
\* The elements of the returned list that come from document i, in order.
chunks_from(i) ==
    SelectAt(result, {k \in 1..Len(result) : origin[k] = i})

\* C1: on every path of chunk_documents (one document, the sequential loop,
\* the pool) no exception of a document's classification, of the reading
\* of its text and metadata or of its chunk_text call reaches the caller:
\* the call returns, and the list has the chunks of the other documents and
\* none of the failing one.
C1_NoExceptionEscapes ==
    /\ pc # "raised"
    /\ pc = "returned" =>
           \A i \in 1..Len(calls) :
               chunks_from(i) = IF calls[i].pc = "returned"
                                THEN calls[i].chunks ELSE <<>>

\* C2: a parallel call on two or more documents returns only when every
\* submitted chunk_text call is over, and the list it returns is made of
\* the chunk lists of the calls that returned, each complete, and of
\* nothing else: a call that raised in its worker adds nothing.
C2_ParallelResultIsUnionOfSuccesses ==
    (pc = "returned" /\ dispatch = "parallel") =>
        /\ Len(calls) = Len(batch.documents)
        /\ \A i \in 1..Len(calls) :
               /\ is_done(calls[i])
               /\ chunks_from(i) = IF calls[i].pc = "returned"
                                   THEN calls[i].chunks ELSE <<>>
        /\ Len(origin) = Len(result)
        /\ \A k \in 1..Len(result) :
               /\ origin[k] \in returned_calls
               /\ \E j \in 1..Len(calls[origin[k]].chunks) :
                      result[k] = calls[origin[k]].chunks[j]

\* A parallel call returned the chunks of one document while the call of
\* the other raised in its worker.
C2_Witness ==
    /\ pc = "returned"
    /\ dispatch = "parallel"
    /\ \E i, j \in 1..Len(calls) :
           /\ calls[i].pc = "raised"
           /\ calls[j].pc = "returned"
           /\ Len(calls[j].chunks) >= 2
           /\ result = calls[j].chunks

\* C3: whatever the order in which the workers finish, the chunks of each
\* document of a parallel call are next to each other in the returned list,
\* with chunk_index 0, 1, ..., n-1 in that order; the blocks of the
\* documents need not follow the order of the documents.
C3_DocumentBlocksContiguous ==
    (pc = "returned" /\ dispatch = "parallel") =>
        \A k \in 1..Len(result) :
            /\ \A j \in 1..(k - 1) :
                   origin[j] = origin[k] =>
                       \A between \in j..k : origin[between] = origin[k]
            /\ result[k].metadata.chunk_index =
                   Cardinality({j \in 1..(k - 1) : origin[j] = origin[k]})

\* A parallel call returned the two chunks of the second document before
\* the two chunks of the first.
C3_Witness ==
    /\ pc = "returned"
    /\ dispatch = "parallel"
    /\ Len(result) = 4
    /\ origin = <<2, 2, 1, 1>>

(***************************************************************************)
(* Properties of the spans and splitters of chunk_text.                    *)
(***************************************************************************)
\* The calls whose text the parent splitter has split.
split_calls ==
    {i \in 1..Len(calls) :
        /\ calls[i].pc \in {"emit", "enhance", "returned"}
        /\ ~suppress_split(calls[i].text, calls[i].document_type)}

C17_OverlapBelowChunkSize ==
    /\ \A key \in splitter_cache :
           /\ key[3] \in {"tokens", "tokens_small"}
           /\ key[1] > 0
           /\ 0 <= key[2]
           /\ key[2] < key[1]
    /\ \A i \in split_calls :
           LET config == get_chunking_config(calls[i].document_type)
           IN  /\ <<config.chunk_size_tokens, config.chunk_overlap_tokens,
                    "tokens">> \in splitter_cache
               /\ (\E k \in 1..Len(calls[i].chunks) :
                       calls[i].chunks[k].metadata.is_small_chunk) =>
                      <<Get(config, "small_chunk_size", 256),
                        calculate_adaptive_overlap(
                            Get(config, "small_chunk_size", 256)),
                        "tokens_small">> \in splitter_cache

\* A call has built the splitters of both tiers.
C17_Witness ==
    /\ \E key \in splitter_cache : key[3] = "tokens"
    /\ \E key \in splitter_cache : key[3] = "tokens_small" /\ key[1] = 300

(***************************************************************************)
(* Properties of the splitter.                                             *)
(***************************************************************************)
\* The places <<first, last>> in text where span number k can lie when the
\* spans before it lie in order, the first at the start of the text, each
\* beginning no later than right after the end of the one before it.
RECURSIVE span_places(_, _, _)
span_places(text, spans, k) ==
    LET fits(first) ==
            /\ first + Len(spans[k]) - 1 <= Len(text)
            /\ SubSeq(text, first, first + Len(spans[k]) - 1) = spans[k]
    IN  IF k = 1
        THEN {<<1, Len(spans[1])>> : first \in {f \in {1} : fits(f)}}
        ELSE {<<first, first + Len(spans[k]) - 1>> :
                 first \in {f \in 1..Len(text) :
                     /\ fits(f)
                     /\ \E before \in span_places(text, spans, k - 1) :
                            /\ before[1] <= f
                            /\ f <= before[2] + 1
                            /\ before[2] <= f + Len(spans[k]) - 1}}

\* The spans, with the overlap of each with the one before it removed, are
\* the text: every character of the text lies in a span, in order.
reconstructs(text, spans) ==
    IF spans = <<>> THEN text = <<>>
    ELSE \E last \in span_places(text, spans, Len(spans)) : last[2] = Len(text)

\* C12: for every text, target > 0 and overlap below the target, the spans
\* the splitter returns, joined with the overlap of each span with the one
\* before it removed, are the text: no character of the text, separators
\* and whitespace at the ends of spans included, is missing and none is
\* added.
C12_SpansReconstructText ==
    splitter.pc = "returned" => reconstructs(splitter.text, splitter.chunks)

(***************************************************************************)
(* Properties of detect_document_type and get_chunking_config.             *)
(***************************************************************************)
\* The rules of the first stage, in the order of the specification: a rule
\* matches a filename that holds one of the substrings any, all of the
\* substrings also and, for xml, comes with a file_type of xml.
Stage1Rules ==
    << [any |-> {<<"8", "0", "0", "-", "5", "3">>}, also |-> {}, xml |-> TRUE,
        tag |-> "800-53_xml"],
       [any |-> {<<"8", "0", "0", "-", "5", "3">>}, also |-> {<<"c", "a", "t", "a",
          "l", "o", "g">>}, xml |-> FALSE,
        tag |-> "800-53_catalog"],
       [any |-> {<<"8", "0", "0", "-", "5", "3", "a">>, <<"a", "s", "s", "e", "s",
          "s", "m", "e", "n", "t">>}, also |-> {}, xml |-> FALSE,
        tag |-> "800-53a_assessment"],
       [any |-> {<<"8", "0", "0", "-", "3", "7">>, <<"r", "m", "f">>}, also |-> {},
          xml |-> FALSE,
        tag |-> "800-37_rmf"],
       [any |-> {<<"c", "s", "f">>, <<"c", "y", "b", "e", "r", "s", "e", "c", "u",
          "r", "i", "t", "y", " ", "f", "r", "a", "m", "e", "w", "o", "r",
          "k">>}, also |-> {}, xml |-> FALSE,
        tag |-> "csf_2.0"],
       [any |-> {<<"8", "0", "0", "-", "1", "7", "1">>}, also |-> {}, xml |->
          FALSE,
        tag |-> "800-171"],
       [any |-> {<<"f", "e", "d", "r", "a", "m", "p">>}, also |-> {}, xml |->
          FALSE,
        tag |-> "fedramp"],
       [any |-> {<<"c", "m", "m", "c">>}, also |-> {}, xml |-> FALSE,
        tag |-> "cmmc"],
       [any |-> {<<"s", "r", "g">>, <<"d", "o", "d">>}, also |-> {}, xml |-> FALSE,
        tag |-> "dod_srg"] >>

\* The types the second stage takes from the side metadata.
Stage2Types ==
    {"800-53_xml", "security_pattern", "positioning_guide", "zone_guide",
     "grouping_guide", "segmentation_guide"}

\* The filename keywords of the third stage, in order.
Stage3Rules ==
    << [any |-> {<<"s", "e", "c", "u", "r", "i", "t", "y", "_", "p", "a", "t", "t",
          "e", "r", "n">>}, also |-> {}, xml |-> FALSE,
        tag |-> "security_pattern"],
       [any |-> {<<"p", "o", "s", "i", "t", "i", "o", "n", "i", "n", "g">>}, also
          |-> {}, xml |-> FALSE,
        tag |-> "positioning_guide"],
       [any |-> {<<"z", "o", "n", "e">>}, also |-> {}, xml |-> FALSE,
        tag |-> "zone_guide"],
       [any |-> {<<"g", "r", "o", "u", "p", "i", "n", "g">>}, also |-> {}, xml |->
          FALSE,
        tag |-> "grouping_guide"],
       [any |-> {<<"s", "e", "g", "m", "e", "n", "t", "a", "t", "i", "o", "n">>},
          also |-> {}, xml |-> FALSE,
        tag |-> "segmentation_guide"],
       [any |-> {<<"q", "u", "e", "r", "y", "_", "p", "a", "t", "t", "e", "r",
          "n">>, <<"g", "r", "e", "e", "t", "i", "n", "g">>}, also |-> {},
          xml |-> FALSE,
        tag |-> "query_patterns"] >>

rule_matches(rule, filename, metadata) ==
    /\ \E needle \in rule.any : Contains(Lower(filename), needle)
    /\ \A needle \in rule.also : Contains(Lower(filename), needle)
    /\ rule.xml => Get(metadata, "file_type", NoneTag) = "xml"

\* The tag of the earliest rule that matches; NoneTag when none does.
first_match(rules, filename, metadata) ==
    LET hits == {k \in 1..Len(rules) : rule_matches(rules[k], filename, metadata)}
    IN  IF hits = {} THEN NoneTag ELSE rules[Min(hits)].tag

\* detect_document_type has returned for the call of the classifier.
classified ==
    /\ classifier.pc \in {"lookup", "returned"}
    /\ classifier.entry = "detect_document_type"

stage1_tag == first_match(Stage1Rules, classifier.filename, classifier.metadata)

stage3_tag == first_match(Stage3Rules, classifier.filename, classifier.metadata)

side_type == Get(classifier.metadata, "document_type", NoneTag)

\* C13: for every filename string and metadata map detect_document_type
\* returns without raising; what it returns is one of the 16 tags that are
\* keys of CHUNKING_CONFIG and of DOCUMENT_LABELS, and it is "default" when
\* no rule matches.
C13_ClassifierTotalOverClosedSet ==
    /\ classifier.pc # "raised"
    /\ classified =>
           /\ classifier.document_type \in DOMAIN CHUNKING_CONFIG
           /\ classifier.document_type \in DOMAIN DOCUMENT_LABELS
           /\ Cardinality(DOMAIN CHUNKING_CONFIG \cap DOMAIN DOCUMENT_LABELS) = 16
           /\ (/\ stage1_tag = NoneTag
               /\ side_type \notin Stage2Types
               /\ stage3_tag = NoneTag) => classifier.document_type = "default"

\* The empty filename with a side type the table does not list is
\* classified as default.
C13_Witness ==
    /\ classified
    /\ classifier.filename = <<>>
    /\ side_type = "unknown"
    /\ classifier.document_type = "default"

\* C14: the stages apply in the order filename substrings, side metadata
\* type, filename keywords, default, and in a stage the earliest rule that
\* matches decides: a match of the first stage hides the side type, a
\* recognized side type hides the keywords of the third stage.
C14_StagesInFixedOrder ==
    classified =>
        classifier.document_type =
            IF stage1_tag # NoneTag THEN stage1_tag
            ELSE IF side_type \in Stage2Types THEN side_type
            ELSE IF stage3_tag # NoneTag THEN stage3_tag
            ELSE "default"

\* A filename that matches two rules of the first stage and a keyword of
\* the third, with a recognized side type that differs from all of them.
C14_Witness ==
    /\ classified
    /\ Cardinality({k \in 1..Len(Stage1Rules) :
           rule_matches(Stage1Rules[k], classifier.filename,
                        classifier.metadata)}) >= 2
    /\ side_type \in Stage2Types
    /\ stage3_tag # NoneTag
    /\ Cardinality({classifier.document_type, side_type, stage3_tag}) = 3

\* C15: when no rule of the first stage matches and the side metadata has
\* a document_type that is a tag of the closed set, that tag is returned,
\* whichever tag of the set it is.
C15_SideTypeOfClosedSetReturned ==
    (/\ classified
     /\ stage1_tag = NoneTag
     /\ side_type \in DOMAIN CHUNKING_CONFIG) =>
        classifier.document_type = side_type

\* C16: get_chunking_config returns, for every tag string, the entry of
\* the tag when the table has one and the entry of default otherwise; it
\* never raises or returns nothing, and the table is as it was.
C16_RegistryTotalWithDefault ==
    /\ classifier.pc # "idle" => classifier.table = CHUNKING_CONFIG
    /\ classifier.pc = "returned" =>
           /\ classifier.config =
                  IF classifier.document_type \in DOMAIN classifier.table
                  THEN classifier.table[classifier.document_type]
                  ELSE classifier.table["default"]
           /\ "chunk_size_tokens" \in DOMAIN classifier.config

\* The config of a tag the table does not list is that of default, and it
\* differs from the config of a tag the table lists.
C16_Witness ==
    /\ classifier.pc = "returned"
    /\ classifier.document_type = "cnssi_1253"
    /\ classifier.config = CHUNKING_CONFIG["default"]
    /\ classifier.config # CHUNKING_CONFIG["cmmc"]

(***************************************************************************)
(* Properties of generate_hypothetical_questions and of                    *)
(* enhance_chunk_metadata.                                                 *)
(***************************************************************************)
QuestionKeys == {"hypothetical_questions", "question_count", "questions_text"}

\* The enhancer's own chunk was handed to entry and the call reached one of
\* the positions in at.
enhancer_at(entry, at) ==
    /\ enhancer.pc \in at
    /\ enhancer.entry = entry

\* The candidate sequence of the family of the enhancer's tag.
candidates_of(chunk) ==
    question_candidates(chunk.text, chunk.metadata, enhancer.document_type)

\* questions is the first n distinct entries of candidates, in the order of
\* their first occurrences.
first_distinct(questions, candidates, n) ==
    LET distinct == {candidates[p] : p \in 1..Len(candidates)}
    IN  /\ Len(questions) = Min({n, Cardinality(distinct)})
        /\ \A k \in 1..Len(questions) :
               LET rest == {p \in 1..Len(candidates) :
                               \A j \in 1..(k - 1) :
                                   candidates[p] # questions[j]}
               IN  /\ rest # {}
                   /\ questions[k] = candidates[Min(rest)]

\* No entry of seq occurs twice.
no_duplicates(seq) ==
    \A j, k \in 1..Len(seq) : seq[j] = seq[k] => j = k

\* C18: the list generate_hypothetical_questions returns, and the list
\* enhance_chunk_metadata stores as hypothetical_questions, has at most 3
\* entries and no duplicates, and is the first 3 distinct entries of the
\* candidate sequence of the tag's family, first occurrences in candidate
\* order.
C18_QuestionsAreFirstThreeDistinct ==
    /\ enhancer_at("generate_hypothetical_questions", {"returned"}) =>
           /\ Len(enhancer.questions) <= 3
           /\ no_duplicates(enhancer.questions)
           /\ first_distinct(enhancer.questions,
                             candidates_of(enhancer.chunk), 3)
    /\ (/\ enhancer_at("enhance_chunk_metadata",
                       {"enhanced", "repeated", "returned"})
        /\ "hypothetical_questions" \in DOMAIN enhancer.once.metadata) =>
           LET stored == enhancer.once.metadata.hypothetical_questions
           IN  /\ Len(stored) <= 3
               /\ no_duplicates(stored)
               /\ first_distinct(stored, candidates_of(enhancer.chunk), 3)

\* The family gave more than 3 candidates with a repeated one among them,
\* and the third question returned is not the third candidate.
C18_Witness ==
    /\ enhancer_at("generate_hypothetical_questions", {"returned"})
    /\ Len(candidates_of(enhancer.chunk)) > 3
    /\ ~no_duplicates(candidates_of(enhancer.chunk))
    /\ Len(enhancer.questions) = 3
    /\ enhancer.questions[3] # candidates_of(enhancer.chunk)[3]

\* C19: enhance_chunk_metadata is deterministic and idempotent: a second
\* call with the same chunk and tag returns a chunk equal to the first
\* call's, and so does the call on the chunk the first call returned, in
\* the three question fields and in every other field.
C19_EnhanceDeterministicIdempotent ==
    /\ enhancer_at("enhance_chunk_metadata", {"repeated", "returned"}) =>
           enhancer.again = enhancer.once
    /\ enhancer_at("enhance_chunk_metadata", {"returned"}) =>
           /\ enhancer.twice = enhancer.once
           /\ \A key \in QuestionKeys :
                  key \in DOMAIN enhancer.once.metadata =>
                      /\ key \in DOMAIN enhancer.twice.metadata
                      /\ enhancer.twice.metadata[key] =
                             enhancer.once.metadata[key]

\* A chunk that got three questions was enhanced a second time.
C19_Witness ==
    /\ enhancer_at("enhance_chunk_metadata", {"returned"})
    /\ enhancer.once # enhancer.chunk
    /\ enhancer.once.metadata.question_count = 3
    /\ enhancer.twice = enhancer.once

\* The chunk after is the chunk before with nothing changed and nothing
\* added but the three question keys, which come together: the count is
\* the length of the list and the text is the list joined by spaces.
enhancement_frame(before, after) ==
    /\ after.text = before.text
    /\ \A key \in DOMAIN before.metadata :
           /\ key \in DOMAIN after.metadata
           /\ after.metadata[key] = before.metadata[key]
    /\ (DOMAIN after.metadata) \ (DOMAIN before.metadata) \subseteq QuestionKeys
    /\ \/ QuestionKeys \cap DOMAIN after.metadata = {}
       \/ /\ QuestionKeys \subseteq DOMAIN after.metadata
          /\ after.metadata.hypothetical_questions # <<>>
          /\ after.metadata.question_count =
                 Len(after.metadata.hypothetical_questions)
          /\ after.metadata.questions_text =
                 JoinWith(<<" ">>, after.metadata.hypothetical_questions)

ControlCatalogTags ==
    {"800-53_catalog", "800-53_xml", "800-53a_assessment", "800-171",
     "fedramp", "cmmc", "dod_srg"}

\* C21: for every control-catalog tag and every chunk whose metadata has a
\* non-empty control_id and control_name, the questions attached with
\* questions enabled include one containing the control_id and one
\* containing the control_name, and they are at most 3 without duplicates.
C21_ControlQuestionsNameIdAndName ==
    (/\ enhancer_at("enhance_chunk_metadata", {"enhanced"})
     /\ enhancer.enable_questions
     /\ enhancer.document_type \in ControlCatalogTags
     /\ Truthy(enhancer.given.metadata, "control_id")
     /\ Truthy(enhancer.given.metadata, "control_name")) =>
        LET questions ==
                Get(enhancer.once.metadata, "hypothetical_questions", <<>>)
        IN  /\ \E k \in 1..Len(questions) :
                   Contains(questions[k], enhancer.given.metadata.control_id)
            /\ \E k \in 1..Len(questions) :
                   Contains(questions[k], enhancer.given.metadata.control_name)
            /\ Len(questions) <= 3
            /\ no_duplicates(questions)

\* C22: for a query_patterns document whose text has a question mark, every
\* question attached to an emitted chunk occurs verbatim in the source text
\* and ends at one of its question marks, at most 3 are attached to a
\* chunk, and none is a templated question.
C22_QueryPatternQuestionsVerbatim ==
    \A i \in returned_calls :
        (/\ calls[i].document_type = "query_patterns"
         /\ calls[i].enable_questions
         /\ Contains(calls[i].text, <<"?">>)) =>
            \A k \in 1..Len(calls[i].chunks) :
                LET questions ==
                        Get(calls[i].chunks[k].metadata,
                            "hypothetical_questions", <<>>)
                IN  /\ Len(questions) <= 3
                    /\ \A q \in 1..Len(questions) :
                           /\ Contains(calls[i].text, questions[q])
                           /\ questions[q][Len(questions[q])] = "?"

(***************************************************************************)
(* Properties of _build_context_prefix.                                    *)
(***************************************************************************)
\* The field is present: the metadata has the key with a value that is
\* neither empty nor None.
has_value(metadata, key) ==
    /\ key \in DOMAIN metadata
    /\ metadata[key] \notin {<<>>, NoneValue}

\* The segments of a prefix, in their fixed order.
SegmentOrder ==
    <<"label", "section_heading", "control", "task_id", "step", "function",
      "category", "impact_level", "baseline_level", "page", "sheet">>

\* The segment field is present for the metadata and the tag.
segment_present(metadata, document_type, field) ==
    IF field = "label" THEN document_type \in DOMAIN DOCUMENT_LABELS
    ELSE IF field = "control" THEN has_value(metadata, "control_id")
    ELSE has_value(metadata, field)

\* What introduces the value of a field in its segment.
SegmentLead ==
    [section_heading |-> <<"S", "e", "c", "t", "i", "o", "n", ":", " ">>,
     task_id |-> <<"T", "a", "s", "k", ":", " ">>,
     step |-> <<"S", "t", "e", "p", ":", " ">>,
     function |-> <<"F", "u", "n", "c", "t", "i", "o", "n", ":", " ">>,
     category |-> <<"C", "a", "t", "e", "g", "o", "r", "y", ":", " ">>,
     impact_level |-> <<"I", "m", "p", "a", "c", "t", " ", "L", "e", "v", "e",
                        "l", ":", " ">>,
     baseline_level |-> <<"B", "a", "s", "e", "l", "i", "n", "e", ":", " ">>,
     page |-> <<"P", "a", "g", "e", " ">>,
     sheet |-> <<"S", "h", "e", "e", "t", ":", " ">>]

\* The segment of a present field: the label of the tag, the control with
\* the name, family and enhancement it has, or the field's value after its
\* lead.
segment_text(metadata, document_type, field) ==
    IF field = "label" THEN DOCUMENT_LABELS[document_type]
    ELSE IF field = "control"
    THEN <<"C", "o", "n", "t", "r", "o", "l", " ">> \o metadata.control_id
         \o (IF has_value(metadata, "control_name")
             THEN <<" ", "-", " ">> \o metadata.control_name ELSE <<>>)
         \o (IF has_value(metadata, "family")
             THEN <<" ", "(", "F", "a", "m", "i", "l", "y", " ">>
                  \o metadata.family \o <<")">>
             ELSE <<>>)
         \o (IF has_value(metadata, "enhancement_number")
             THEN <<" ", "E", "n", "h", "a", "n", "c", "e", "m", "e", "n", "t",
                    " ">> \o metadata.enhancement_number
             ELSE <<>>)
    ELSE SegmentLead[field] \o metadata[field]

\* The segments of the fields that are present, in the fixed order.
present_segments(metadata, document_type) ==
    LET present == SelectAt(SegmentOrder,
                            {k \in 1..Len(SegmentOrder) :
                                segment_present(metadata, document_type,
                                                SegmentOrder[k])})
    IN  [k \in 1..Len(present) |->
            segment_text(metadata, document_type, present[k])]

Separator == <<" ", "|", " ">>

\* The segments with the separator between each two of them.
RECURSIVE separated(_)
separated(segments) ==
    IF segments = <<>> THEN <<>>
    ELSE IF Len(segments) = 1 THEN segments[1]
    ELSE segments[1] \o Separator \o separated(Tail(segments))

\* The number of places of text where the separator stands.
separators_in(text) ==
    Cardinality({p \in 1..(Len(text) - 2) : SubSeq(text, p, p + 2) = Separator})

\* C23: _build_context_prefix returns the segments of the fields that are
\* present (that have a value), in the fixed order label, section heading,
\* control, task, step, function, category, impact level, baseline level,
\* page, sheet, joined by ' | ': no segment is empty, there are as many
\* separators as segments less one, and none stands first, last or next to
\* another.
C23_PrefixIsJoinOfPresentSegments ==
    labeller.pc = "returned" =>
        LET segments == present_segments(labeller.metadata,
                                         labeller.document_type)
            prefix == labeller.prefix
        IN  /\ prefix = separated(segments)
            /\ \A k \in 1..Len(segments) : segments[k] # <<>>
            /\ separators_in(prefix) =
                   IF segments = <<>> THEN 0 ELSE Len(segments) - 1
            /\ Take(prefix, 3) # Separator
            /\ prefix = <<>> \/ SubSeq(prefix, Len(prefix) - 2, Len(prefix)) # Separator
            /\ ~Contains(prefix, Separator \o Separator)

\* The metadata has every field but one, which is there with an empty
\* value, and the prefix has the ten other segments.
C23_Witness ==
    /\ labeller.pc = "returned"
    /\ "step" \in DOMAIN labeller.metadata
    /\ labeller.metadata.step = <<>>
    /\ labeller.document_type = "cmmc"
    /\ separators_in(labeller.prefix) = 9
    /\ Contains(labeller.prefix, <<"|", " ", "P", "a", "g", "e", " ", "1", "2", " ", "|">>)

(***************************************************************************)
(* Properties of the context prefix in the chunks chunk_text emits.        *)
(***************************************************************************)
\* The metadata has none of the fields _build_context_prefix reads.
no_label_fields(metadata) ==
    \A key \in DOMAIN LabelValues : ~has_value(metadata, key)

\* content is the trimmed content of chunk k of call i: the whole text
\* trimmed when the text was not split, the k-th parent span when the spans
\* are emitted directly, and a trimmed piece of its parent for a small
\* chunk.
is_content_of(content, i, k) ==
    LET chunk == calls[i].chunks[k]
    IN  IF chunk.metadata.is_small_chunk
        THEN /\ Contains(chunk.metadata.parent_text, content)
             /\ Strip(content) = content
             /\ content # <<>>
        ELSE IF i \in split_calls
        THEN content = calls[i].parent_chunks[k]
        ELSE content = Strip(calls[i].text)

\* text is content with lead and a blank line in front.
has_lead(text, lead, content) == text = lead \o <<"\n", "\n">> \o content

\* The text after a lead and the blank line that follows it.
after_lead(text, lead) == SubSeq(text, Len(lead) + 3, Len(text))

\* C24 as stated: when the metadata has none of the label fields, the
\* prefix is empty whatever the resolved tag, so every emitted chunk has the
\* trimmed content as its text and no context_prefix key.
C24_NoFieldsNoPrefix ==
    \A i \in returned_calls :
        no_label_fields(calls[i].metadata) =>
            \A k \in 1..Len(calls[i].chunks) :
                /\ "context_prefix" \notin DOMAIN calls[i].chunks[k].metadata
                /\ is_content_of(calls[i].chunks[k].text, i, k)

\* C24, amended: when the metadata has none of the label fields, the prefix
\* is the label of the resolved tag.  For a tag with a label every emitted
\* chunk records the label as context_prefix and its text is the label, a
\* blank line and the trimmed content (the empty text when the content is
\* empty); for a tag without label the text is the trimmed content and
\* there is no context_prefix key.
C24_NoFieldsLabelOnly ==
    \A i \in returned_calls :
        no_label_fields(calls[i].metadata) =>
            \A k \in 1..Len(calls[i].chunks) :
                LET chunk == calls[i].chunks[k]
                    label == Get(DOCUMENT_LABELS, calls[i].document_type, <<>>)
                IN  IF label = <<>>
                    THEN /\ "context_prefix" \notin DOMAIN chunk.metadata
                         /\ is_content_of(chunk.text, i, k)
                    ELSE /\ "context_prefix" \in DOMAIN chunk.metadata
                         /\ chunk.metadata.context_prefix = label
                         /\ IF chunk.text = <<>>
                            THEN is_content_of(<<>>, i, k)
                            ELSE /\ has_lead(chunk.text, label,
                                             after_lead(chunk.text, label))
                                 /\ is_content_of(after_lead(chunk.text, label),
                                                  i, k)

\* A call without label fields returned small chunks that begin with the
\* label of its tag.
C24_Witness ==
    \E i \in returned_calls :
        /\ no_label_fields(calls[i].metadata)
        /\ calls[i].document_type = "cmmc"
        /\ Len(calls[i].chunks) > 2
        /\ calls[i].chunks[1].metadata.is_small_chunk
        /\ calls[i].chunks[1].metadata.context_prefix =
               DOCUMENT_LABELS["cmmc"]

\* C25: in every emission path, whenever the context prefix is not empty,
\* the text of every chunk is the prefix, a blank line and the trimmed
\* content of the span, its context_prefix is the prefix, and its
\* document_type is the resolved tag, whatever document_type the source
\* metadata has.
C25_PrefixedTextAndRecordedTag ==
    \A i \in returned_calls :
        prefix_of(i) # <<>> =>
            \A k \in 1..Len(calls[i].chunks) :
                LET chunk == calls[i].chunks[k]
                IN  /\ has_lead(chunk.text, prefix_of(i),
                                after_lead(chunk.text, prefix_of(i)))
                    /\ is_content_of(after_lead(chunk.text, prefix_of(i)), i, k)
                    /\ "context_prefix" \in DOMAIN chunk.metadata
                    /\ chunk.metadata.context_prefix = prefix_of(i)
                    /\ chunk.metadata.document_type = calls[i].document_type

(***************************************************************************)
(* Properties of token_utils.py.                                           *)
(***************************************************************************)
\* The loads of a vocabulary so far.
vocabulary_loads(encoding_name) == token_utils.loads[encoding_name]

\* C28: for each vocabulary (encoding) id the vocabulary is loaded at most
\* once per process, under every interleaving of get_tokenizer, count_tokens
\* and create_token_counter calls, first calls made concurrently by several
\* threads included; every call returns the one cached instance.
C28_VocabularyLoadedOnce ==
    token_utils.pc = "running" =>
        /\ \A encoding_name \in Encodings :
               vocabulary_loads(encoding_name) <= 1
        /\ \A t \in Threads :
               token_utils.threads[t].tokenizer \in {0, 1}

\* 20% of S rounded to the nearest integer: S / 5 is never half way between
\* two integers, so the nearest integer is the floor of S / 5 + 1 / 2.
nearest_fifth(S) == (2 * S + 5) \div 10

\* min(max(20, round(0.2 * S)), S / 2), the half taken as a whole number of
\* tokens.
rounded_overlap(S) ==
    LET raised == IF nearest_fifth(S) > 20 THEN nearest_fifth(S) ELSE 20
        half == S \div 2
    IN  IF raised < half THEN raised ELSE half

\* C29: for every positive integer small budget S,
\* calculate_adaptive_overlap(S) is 20% of S rounded to the nearest integer,
\* raised to at least 20, then capped at half of S.
C29_OverlapIsRoundedFifth ==
    (token_utils.pc = "returned"
     /\ token_utils.entry = "calculate_adaptive_overlap") =>
        token_utils.overlap = rounded_overlap(token_utils.chunk_size_tokens)

\* The same with 20% of S truncated instead of rounded: a probe of where
\* the two differ.
C29_OverlapIsTruncatedFifth ==
    (token_utils.pc = "returned"
     /\ token_utils.entry = "calculate_adaptive_overlap") =>
        LET S == token_utils.chunk_size_tokens
            raised == IF S \div 5 > 20 THEN S \div 5 ELSE 20
        IN  token_utils.overlap = IF raised < S \div 2 THEN raised
                                  ELSE S \div 2

(***************************************************************************)
(* Properties of the module-level caches under a parallel batch.           *)
(***************************************************************************)
\* At its position the pipeline is about to read or write a module-level
\* variable: _token_counter and _tokenizer_cache at lines 293-296,
\* _splitter_cache and _token_counter at lines 319-327 and, when the
\* hierarchy applies, at lines 341-348.
touches_caches(call) ==
    \/ call.pc \in {"called", "split"}
    \/ /\ call.pc = "emit"
       /\ hierarchy_applies(call.parent_chunks, call.document_type,
                            call.enable_small2big)

\* Two pipelines of a parallel batch are at such positions at once.
racing_workers ==
    /\ dispatch = "parallel"
    /\ \E i, j \in 1..Len(calls) :
           i # j /\ touches_caches(calls[i]) /\ touches_caches(calls[j])

\* C27: during a parallel batch the concurrently running pipelines write no
\* process-wide state: no step changes the token counter, the splitter
\* cache or the tokenizer cache while two workers are at positions that read
\* or write them.
C27_WorkersWriteNoSharedState ==
    [][racing_workers => cache_vars' = cache_vars]_vars

(***************************************************************************)
(* Properties of the dict objects.                                         *)
(***************************************************************************)
\* The metadata objects of the documents.
source_objects == {memory.documents[k].metadata : k \in DOMAIN memory.documents}

\* C26: chunk_text and chunk_documents never modify their input: at every
\* point of every path each document's text and metadata map have the keys
\* and values they had before the call, and no chunk's metadata object is a
\* document's metadata object.
C26_InputsUnchanged ==
    memory.pc = "running" =>
        /\ \A k \in DOMAIN memory.documents :
               /\ memory.documents[k].text = memory.before[k].text
               /\ memory.objects[memory.documents[k].metadata] =
                      memory.before[k].metadata
        /\ \A i \in DOMAIN memory.frames :
               \A k \in DOMAIN memory.frames[i].chunks :
                   memory.frames[i].chunks[k].metadata \notin source_objects

\* A batch of two documents returned, one on the path of the single chunk
\* and one with several chunks that all got questions.
C26_Witness ==
    /\ memory.pc = "running"
    /\ Len(memory.frames) = 2
    /\ \A i \in 1..2 : memory.frames[i].pc = "returned"
    /\ \E i \in 1..2 :
           /\ memory.frames[i].parent_chunks = <<>>
           /\ Len(memory.frames[i].chunks) = 1
    /\ \E i \in 1..2 :
           /\ Len(memory.frames[i].chunks) > 1
           /\ \A k \in DOMAIN memory.frames[i].chunks :
                  "hypothetical_questions" \in
                      DOMAIN memory.objects[memory.frames[i].chunks[k].metadata]

(***************************************************************************)
(* chunk_documents with parallel=False as a function of its input: the     *)
(* documents are chunked one after the other, in input order, each on the  *)
(* splitter cache the documents before it have left.                       *)
(***************************************************************************)
\* The chunks and the splitter cache after chunk_text on a call that does
\* not raise.
chunk_text_alone(cache, call) ==
    LET document_type == resolve_document_type(call.metadata,
                                               call.document_type)
        context_prefix == build_context_prefix(call.metadata, document_type)
        with_parent == cache \cup {cache_key(document_type)}
        with_small == with_parent \cup {small_cache_key(document_type)}
        parent_chunks ==
            split_with(cached_splitter(with_parent, cache_key(document_type)),
                       call.text)
    IN  IF suppress_split(call.text, document_type)
        THEN [cache |-> cache,
              chunks |->
                  batch_enhance_chunks(
                      single_chunk(call.text, call.metadata, document_type,
                                   context_prefix, count_tokens(call.text)),
                      document_type, call.enable_questions)]
        ELSE IF hierarchy_applies(parent_chunks, document_type,
                                  call.enable_small2big)
        THEN [cache |-> with_small,
              chunks |->
                  batch_enhance_chunks(
                      small2big_chunks(
                          parent_chunks, call.metadata, document_type,
                          cached_splitter(with_small,
                                          small_cache_key(document_type))),
                      document_type, call.enable_questions)]
        ELSE [cache |-> with_parent,
              chunks |->
                  batch_enhance_chunks(
                      direct_chunks(parent_chunks, call.metadata,
                                    document_type),
                      document_type, call.enable_questions)]

\* The splitter cache the sequential loop has built before document k.
RECURSIVE sequential_cache(_)
sequential_cache(k) ==
    IF k = 1 THEN {}
    ELSE chunk_text_alone(sequential_cache(k - 1),
                          document_call(batch.documents[k - 1],
                                        "called")).cache

\* The chunk list of document k in the sequential loop.
sequential_chunks(k) ==
    chunk_text_alone(sequential_cache(k),
                     document_call(batch.documents[k], "called")).chunks

\* The chunk lists of documents k, k + 1, ... one after the other.
RECURSIVE sequential_blocks(_)
sequential_blocks(k) ==
    IF k > Len(batch.documents) THEN <<>>
    ELSE sequential_chunks(k) \o sequential_blocks(k + 1)

\* The call on two or more documents returned and no pipeline raised.
batch_returned(branch) ==
    /\ pc = "returned"
    /\ dispatch = branch
    /\ Len(calls) = Len(batch.documents)
    /\ \A i \in 1..Len(calls) : calls[i].pc = "returned"

=============================================================================
